---- MODULE Spec2Model ----
(***************************************************************************)
(* A model of ctfcli's ChallengeCommand (src/ctfcli/cli/challenges.py):    *)
(* the batch orchestrator over the challenge Registry (.ctf/config), the   *)
(* git subtree / subrepo transport commands (push, pull, restore) and the  *)
(* reconciliation commands (install, sync, deploy, mirror, verify).        *)
(*                                                                         *)
(* A command is run in steps: <Cmd>Invoke resolves the selector and makes  *)
(* the early returns, <Cmd>Item is one pass of the command's for loop,     *)
(* <Cmd>Return is the code after the loop.  Exit ends the process; the     *)
(* Registry, the working tree and the remote platform persist.             *)
(***************************************************************************)
EXTENDS Integers, Sequences, FiniteSets, TLC

\* Number of challenge directories of the project ("1", "2", ...).
NumChals == 2

ChalIds == 1..NumChals

VARIABLES
    registry,          \* config.challenges: sequence of [key, source], in file order
    use_subrepo,       \* config["config"]["use_subrepo"]
    subrepo_installed, \* what check_if_git_subrepo_is_installed() answers
    dirs,              \* paths present in the working tree (a challenge directory holds its challenge.yml)
    local,             \* the challenge.yml of each directory
    remote,            \* challenges installed on the remote platform
    pc,                \* "idle", "loop", "done" (returned), "raised" (exception escaped)
    cmd,               \* the running command and its arguments
    items,             \* the list the command's for loop iterates
    idx,               \* number of items the loop has consumed
    failed,            \* failed_pushes / failed_pulls / failed_restores / failed_installs / ...
    in_sync,           \* verify: challenges_in_sync
    out_of_sync,       \* verify: challenges_out_of_sync
    failed_deployments,\* deploy: failed_deployments
    remote_challenges, \* the listing a command fetched with load_installed_challenges()
    calls,             \* subprocess and entity calls made by the running command, in order
    rcs,               \* what the calls of the last loop pass returned
    status,            \* <<>> until the command returns, then <<exit status>>
    prev,              \* <<the verify run that ended last>>, while nothing else ran since
    report             \* the end-of-batch listing the command printed: [heading, item] lines

world == <<registry, use_subrepo, subrepo_installed, dirs, local, remote>>
run == <<pc, cmd, items, idx, failed, in_sync, out_of_sync, failed_deployments,
         remote_challenges, calls, rcs, status>>
vars == <<registry, use_subrepo, subrepo_installed, dirs, local, remote,
          pc, cmd, items, idx, failed, in_sync, out_of_sync, failed_deployments,
          remote_challenges, calls, rcs, status, prev, report>>

----------------------------------------------------------------------------
(* Strings.  A string is a sequence of tokens; a path's separators and a   *)
(* name's extension are tokens of their own, so that endswith(), the "/"   *)
(* of pathlib and int() are computed and not assumed.  None and "" are     *)
(* both <<>>: the code tests them with `if challenge:` / `if not repo:`.   *)

YML == ".yml"
YAML == ".yaml"
GIT == ".git"
SEP == "/"

EndsWith(s, suffix) == Len(s) > 0 /\ s[Len(s)] = suffix

\* pathlib's a / b, relative to the project root (Path(".") is the root itself)
Join(a, b) == IF a = <<>> \/ a = <<".">> THEN b ELSE a \o <<SEP>> \o b

ChallengeYml == <<"challenge", YML>>
CustomYaml == <<"custom", YAML>>

\* str(challenge_path) of the challenge in directory n
DirStr(n) == <<ToString(n)>>

\* int(key): defined on a decimal numeral only, ValueError otherwise
IsInt(key) == Len(key) = 1 /\ key[1] \in {ToString(n) : n \in 0..9}
IntOf(key) == CHOOSE n \in 0..9 : ToString(n) = key[1]

LocalSource(n) == <<"/local/", ToString(n)>>
GitSource(n) == <<"https://host/", ToString(n), GIT>>

----------------------------------------------------------------------------
(* The Registry *)

RegistryKeys == [i \in 1..Len(registry) |-> registry[i].key]

\* config.challenges.get(key, None)
Get(key) ==
    IF \E i \in 1..Len(registry) : registry[i].key = key
    THEN registry[CHOOSE i \in 1..Len(registry) : registry[i].key = key].source
    ELSE <<>>

----------------------------------------------------------------------------
(* The Challenge entity's constructor (ctfcli.core.challenge, not in src/) *)

\* Challenge(path): loads the definition file at path, or ChallengeException (<<>>)
LoadFile(path) ==
    IF \E n \in ChalIds : DirStr(n) \in dirs /\ path = Join(DirStr(n), ChallengeYml)
    THEN <<CHOOSE n \in ChalIds : DirStr(n) \in dirs /\ path = Join(DirStr(n), ChallengeYml)>>
    ELSE <<>>

\* Challenge(int(key)): the key resolved to its definition file
LoadKey(k) == LoadFile(Join(DirStr(k), ChallengeYml))

----------------------------------------------------------------------------
(* Selector resolution *)

Cwd == <<>>

\* a resolution that takes every selector for a challenge directory
ResolvePathAsDirectory(challenge) == Join(challenge, ChallengeYml)

ResolvePath(challenge) ==
    LET challenge_path ==
            IF challenge # <<>>
            THEN IF EndsWith(challenge, YML) \/ EndsWith(challenge, YAML) \/ challenge = <<".">>
                 THEN Join(Cwd, challenge)
                 ELSE challenge
            ELSE Cwd
    IN  IF ~EndsWith(challenge_path, YML) /\ ~EndsWith(challenge_path, YAML)
        THEN Join(challenge_path, ChallengeYml)
        ELSE challenge_path

\* <<n>> for the loaded challenge, <<>> for None
ResolveSingleChallenge(challenge) == LoadFile(ResolvePath(challenge))

RECURSIVE ResolveKeys(_)
ResolveKeys(keys) ==
    IF keys = <<>> THEN <<>>
    ELSE LoadKey(IntOf(Head(keys))) \o ResolveKeys(Tail(keys))

\* int(challenge_key) raises ValueError, which nothing catches, on the first
\* key that is not a numeral; a ChallengeException skips the key
ResolveAllRaises == \E i \in 1..Len(registry) : ~IsInt(registry[i].key)
ResolveAllChallenges == ResolveKeys(RegistryKeys)

\* the selector resolution that opens every batch command
Resolution(challenge) ==
    IF challenge # <<>>
    THEN [raised |-> FALSE,
          none |-> ResolveSingleChallenge(challenge) = <<>>,
          challenges |-> ResolveSingleChallenge(challenge)]
    ELSE IF ResolveAllRaises
         THEN [raised |-> TRUE, none |-> FALSE, challenges |-> <<>>]
         ELSE [raised |-> FALSE, none |-> FALSE, challenges |-> ResolveAllChallenges]

----------------------------------------------------------------------------
(* Calls out of the process: subprocesses and entity operations *)

Call(op, on, arg) == [op |-> op, on |-> on, arg |-> arg]

\* click.secho(heading) followed by one click.echo(" - item") for each item
EchoList(heading, challenges) ==
    [i \in 1..Len(challenges) |-> [heading |-> heading, item |-> challenges[i]]]

\* the end of push, pull, restore, install, sync and mirror: nothing is listed
\* after a success, nor by a quiet command
FailedListing(heading, quiet, failed_items) ==
    IF Len(failed_items) = 0 \/ quiet THEN <<>> ELSE EchoList(heading, failed_items)

\* the end of verify
VerifyListing(failed_verifications, challenges_in_sync, challenges_out_of_sync) ==
    IF Len(failed_verifications) = 0
    THEN EchoList("Challenges in sync:", challenges_in_sync)
         \o EchoList("Challenges out of sync:", challenges_out_of_sync)
    ELSE EchoList("Verification failed for:", failed_verifications)

\* the end of deploy: under both headings the loop runs over failed_deployments
DeployListing(deploy_failed, failed_syncs) ==
    IF Len(deploy_failed) = 0 /\ Len(failed_syncs) = 0 THEN <<>>
    ELSE (IF Len(deploy_failed) > 0
          THEN EchoList("Deployment failed for:", deploy_failed) ELSE <<>>)
         \o (IF Len(failed_syncs) > 0
             THEN EchoList("Install / Sync failed for:", deploy_failed) ELSE <<>>)

GitOps == {"git status", "git add", "git commit", "git subrepo push", "git subtree push",
           "git subrepo pull", "git subtree pull", "git mergetool", "git commit --no-edit",
           "git clean", "git subtree add", "get_git_repo_head_branch"}

\* what the calls of one loop pass returned: 0, or 1 for any non-zero code / raise.
\* "dirty" is git status printing something, "connection_info" the deployment
\* result carrying one.  A call that is not made returns 0.
RcNames == {"status", "dirty", "add", "commit", "push", "add_cmd",
            "pull", "mergetool", "pull_commit", "clean", "subtree_add",
            "create", "sync", "mirror", "deploy", "connection_info", "clone_mirror"}
NoRc == [x \in RcNames |-> 0]
Rc(S) == [x \in RcNames |-> IF x \in S THEN 1 ELSE 0]

NoCmd == [name |-> "", challenge |-> <<>>, no_auto_pull |-> FALSE, quiet |-> FALSE,
          strategy |-> "", force |-> FALSE, ignore |-> {}, skip_verify |-> FALSE,
          create |-> FALSE, host |-> <<>>, repo |-> <<>>, directory |-> <<>>,
          yaml_path |-> <<>>]
Cmd(name, challenge) == [NoCmd EXCEPT !.name = name, !.challenge = challenge]

Strategies == {"fast-forward", "rebase", "merge", "force", "bogus"}

----------------------------------------------------------------------------
(* pull *)

\* the registry lookup both push and pull open a pass with
LookupRepo(challenge_path) ==
    IF Get(challenge_path) # <<>> THEN Get(challenge_path)
    ELSE Get(Join(challenge_path, ChallengeYml))

StrategyFlags(strategy) ==
    CASE strategy = "rebase" -> {"--rebase"}
      [] strategy = "merge" -> {"--merge"}
      [] strategy = "force" -> {"--force"}
      [] OTHER -> {}

\* a pull pass that does not look at what git clean returned
PullItemIgnoringCleanup(n, strategy, rc) ==
    LET challenge_path == DirStr(n)
        challenge_repo == LookupRepo(challenge_path)
        cmd_calls ==
            IF use_subrepo
            THEN <<Call("git subrepo pull", challenge_path, StrategyFlags(strategy))>>
            ELSE <<Call("get_git_repo_head_branch", challenge_repo, {}),
                   Call("git subtree pull", challenge_path, {"--squash"})>>
        followup == <<Call("git mergetool", challenge_path, {}),
                      Call("git commit --no-edit", challenge_path, {}),
                      Call("git clean", challenge_path, {"-f"})>>
    IN  IF challenge_repo = <<>> THEN [calls |-> <<>>, failed |-> TRUE]
        ELSE IF ~EndsWith(challenge_repo, GIT) THEN [calls |-> <<>>, failed |-> TRUE]
        ELSE IF rc.pull # 0 THEN [calls |-> cmd_calls, failed |-> TRUE]
        ELSE IF ~use_subrepo
             THEN [calls |-> cmd_calls \o followup, failed |-> rc.mergetool # 0]
             ELSE [calls |-> cmd_calls, failed |-> FALSE]

\* one pass of pull's loop over the challenge in directory n
PullItem(n, strategy, rc) ==
    LET challenge_path == DirStr(n)
        challenge_repo == LookupRepo(challenge_path)
        cmd_calls ==
            IF use_subrepo
            THEN <<Call("git subrepo pull", challenge_path, StrategyFlags(strategy))>>
            ELSE <<Call("get_git_repo_head_branch", challenge_repo, {}),
                   Call("git subtree pull", challenge_path, {"--squash"})>>
        followup == <<Call("git mergetool", challenge_path, {}),
                      Call("git commit --no-edit", challenge_path, {}),
                      Call("git clean", challenge_path, {"-f"})>>
    IN  IF challenge_repo = <<>> THEN [calls |-> <<>>, failed |-> TRUE]
        ELSE IF ~EndsWith(challenge_repo, GIT) THEN [calls |-> <<>>, failed |-> TRUE]
        ELSE IF rc.pull # 0 THEN [calls |-> cmd_calls, failed |-> TRUE]
        ELSE IF ~use_subrepo
             THEN [calls |-> cmd_calls \o followup,
                   failed |-> rc.mergetool # 0 \/ rc.clean # 0]
             ELSE [calls |-> cmd_calls, failed |-> FALSE]

\* the return codes a pass of pull can see (calls that are not made return 0)
PullRcs(n) ==
    LET repo == LookupRepo(DirStr(n))
    IN  IF repo = <<>> \/ ~EndsWith(repo, GIT) THEN {NoRc}
        ELSE IF use_subrepo THEN {NoRc, Rc({"pull"})}
        ELSE {Rc({"pull"})} \cup {Rc(S) : S \in SUBSET {"mergetool", "pull_commit", "clean"}}

RECURSIVE PullLoop(_, _, _)
PullLoop(challenges, strategy, rcOf) ==
    IF challenges = <<>> THEN [calls |-> <<>>, failed |-> <<>>]
    ELSE LET n == Head(challenges)
             one == PullItem(n, strategy, rcOf[n])
             rest == PullLoop(Tail(challenges), strategy, rcOf)
         IN  [calls |-> one.calls \o rest.calls,
              failed |-> (IF one.failed THEN <<n>> ELSE <<>>) \o rest.failed]

\* self.pull(challenge, strategy, quiet) run to its end inside another command;
\* rcOf gives the return codes of the pass over each challenge
PullRun(challenge, strategy, rcOf) ==
    LET res == Resolution(challenge)
        loop == PullLoop(res.challenges, strategy, rcOf)
    IN  IF res.raised THEN [raised |-> TRUE, status |-> 1, calls |-> <<>>]
        ELSE IF res.none THEN [raised |-> FALSE, status |-> 1, calls |-> <<>>]
        ELSE IF use_subrepo /\ ~subrepo_installed
             THEN [raised |-> FALSE, status |-> 1, calls |-> <<>>]
        ELSE [raised |-> FALSE,
              status |-> IF Len(loop.failed) = 0 THEN 0 ELSE 1,
              calls |-> loop.calls]

\* a batch that is handed over empty whenever quiet is set
ContextEmptyWhenQuiet(quiet, challenges) == IF quiet THEN <<>> ELSE challenges

\* the iterable the loop of push and pull runs over: nullcontext(challenges)
\* hands the list itself, click.progressbar(challenges) iterates it in order
Context(quiet, challenges) ==
    IF quiet \/ Len(challenges) <= 1 THEN challenges ELSE challenges

\* the shape of every batch command's opening: resolve, then the early returns
Begin(c, resolution, early) ==
    /\ pc = "idle"
    /\ cmd' = c
    /\ rcs' = NoRc
    /\ idx' = 0
    /\ failed' = <<>>
    /\ in_sync' = <<>>
    /\ out_of_sync' = <<>>
    /\ prev' = IF c.name = "verify" THEN prev ELSE <<>>
    /\ report' = <<>>
    /\ \E res \in {resolution} :
         IF res.raised
         THEN pc' = "raised" /\ status' = <<>> /\ items' = <<>>
         ELSE IF res.none \/ early
              THEN pc' = "done" /\ status' = <<1>> /\ items' = <<>>
              ELSE pc' = "loop" /\ status' = <<>> /\ items' = res.challenges

PullInvoke(challenge, strategy, quiet) ==
    /\ Begin([Cmd("pull", challenge) EXCEPT !.strategy = strategy, !.quiet = quiet],
             [Resolution(challenge) EXCEPT !.challenges = Context(quiet, @)],
             use_subrepo /\ ~subrepo_installed)
    /\ calls' = <<>>
    /\ UNCHANGED <<world, remote_challenges, failed_deployments>>

PullStep ==
    /\ pc = "loop" /\ cmd.name = "pull" /\ idx < Len(items)
    /\ \E rc \in PullRcs(items[idx + 1]) :
       \E n \in {items[idx + 1]} :
       \E one \in {PullItem(n, cmd.strategy, rc)} :
             /\ calls' = calls \o one.calls
             /\ failed' = IF one.failed THEN Append(failed, n) ELSE failed
             /\ rcs' = rc
    /\ idx' = idx + 1
    /\ UNCHANGED <<world, pc, cmd, items, in_sync, out_of_sync, failed_deployments,
                   remote_challenges, status, prev, report>>

\* a pull whose status is the number of failed items
PullReturnCountingFailures ==
    /\ pc = "loop" /\ cmd.name = "pull" /\ idx = Len(items)
    /\ status' = <<Len(failed)>>
    /\ pc' = "done"
    /\ report' = FailedListing("Pull failed for:", cmd.quiet, failed)
    /\ UNCHANGED <<world, cmd, items, idx, failed, in_sync, out_of_sync,
                   failed_deployments, remote_challenges, calls, rcs, prev>>

PullReturn ==
    /\ pc = "loop" /\ cmd.name = "pull" /\ idx = Len(items)
    /\ status' = IF Len(failed) = 0 THEN <<0>> ELSE <<1>>
    /\ pc' = "done"
    /\ report' = FailedListing("Pull failed for:", cmd.quiet, failed)
    /\ UNCHANGED <<world, cmd, items, idx, failed, in_sync, out_of_sync,
                   failed_deployments, remote_challenges, calls, rcs, prev>>

----------------------------------------------------------------------------
(* push *)

\* a push pass that does not look at the source locator's suffix
PushItemAnySource(n, no_auto_pull, rc) ==
    LET challenge_path == DirStr(n)
        challenge_repo == LookupRepo(challenge_path)
        push_cmd ==
            IF use_subrepo
            THEN <<Call("git subrepo push", challenge_path, {})>>
            ELSE <<Call("get_git_repo_head_branch", challenge_repo, {}),
                   Call("git subtree push", challenge_path, {})>>
    IN  IF challenge_repo = <<>> THEN [calls |-> <<>>, failed |-> TRUE]
        ELSE [calls |-> <<Call("git status", challenge_path, {"--porcelain"})>> \o push_cmd,
              failed |-> rc.push # 0]

\* one pass of push's loop over the challenge in directory n
\* a push pass that records the challenge as failed when its automatic pull fails
PushItemFailingOnAutoPull(n, no_auto_pull, rc) ==
    LET challenge_path == DirStr(n)
        challenge_repo == LookupRepo(challenge_path)
        git_status == <<Call("git status", challenge_path, {"--porcelain"})>>
        commit == <<Call("git add", challenge_path, {}),
                    Call("git commit", challenge_path, {})>>
        push_cmd ==
            IF use_subrepo
            THEN <<Call("git subrepo push", challenge_path, {})>>
            ELSE <<Call("get_git_repo_head_branch", challenge_repo, {}),
                   Call("git subtree push", challenge_path, {})>>
        auto_pull == PullRun(challenge_path, "fast-forward", [m \in ChalIds |-> rc])
    IN  IF challenge_repo = <<>> THEN [calls |-> <<>>, failed |-> TRUE]
        ELSE IF ~EndsWith(challenge_repo, GIT) THEN [calls |-> <<>>, failed |-> TRUE]
        ELSE IF rc.dirty = 0 /\ rc.status = 0 THEN [calls |-> git_status, failed |-> FALSE]
        ELSE IF rc.add # 0 \/ rc.commit # 0
             THEN [calls |-> git_status \o commit, failed |-> TRUE]
        ELSE IF rc.push # 0
             THEN [calls |-> git_status \o commit \o push_cmd, failed |-> TRUE]
        ELSE IF no_auto_pull
             THEN [calls |-> git_status \o commit \o push_cmd, failed |-> FALSE]
        ELSE [calls |-> git_status \o commit \o push_cmd \o auto_pull.calls,
              failed |-> auto_pull.status # 0]

\* a push pass that runs the transport push whatever git add and git commit returned
PushItemPushingUncommitted(n, no_auto_pull, rc) ==
    LET challenge_path == DirStr(n)
        challenge_repo == LookupRepo(challenge_path)
        git_status == <<Call("git status", challenge_path, {"--porcelain"})>>
        commit == <<Call("git add", challenge_path, {}),
                    Call("git commit", challenge_path, {})>>
        push_cmd ==
            IF use_subrepo
            THEN <<Call("git subrepo push", challenge_path, {})>>
            ELSE <<Call("get_git_repo_head_branch", challenge_repo, {}),
                   Call("git subtree push", challenge_path, {})>>
    IN  IF challenge_repo = <<>> THEN [calls |-> <<>>, failed |-> TRUE]
        ELSE IF ~EndsWith(challenge_repo, GIT) THEN [calls |-> <<>>, failed |-> TRUE]
        ELSE IF rc.dirty = 0 /\ rc.status = 0 THEN [calls |-> git_status, failed |-> FALSE]
        ELSE [calls |-> git_status \o commit \o push_cmd,
              failed |-> rc.add # 0 \/ rc.commit # 0 \/ rc.push # 0]

\* a push pass that stages and commits without looking at git status's answer
PushItemCommittingClean(n, no_auto_pull, rc) ==
    LET challenge_path == DirStr(n)
        challenge_repo == LookupRepo(challenge_path)
        git_status == <<Call("git status", challenge_path, {"--porcelain"})>>
        commit == <<Call("git add", challenge_path, {}),
                    Call("git commit", challenge_path, {})>>
        push_cmd ==
            IF use_subrepo
            THEN <<Call("git subrepo push", challenge_path, {})>>
            ELSE <<Call("get_git_repo_head_branch", challenge_repo, {}),
                   Call("git subtree push", challenge_path, {})>>
    IN  IF challenge_repo = <<>> THEN [calls |-> <<>>, failed |-> TRUE]
        ELSE IF ~EndsWith(challenge_repo, GIT) THEN [calls |-> <<>>, failed |-> TRUE]
        ELSE IF rc.add # 0 \/ rc.commit # 0
             THEN [calls |-> git_status \o commit, failed |-> TRUE]
        ELSE [calls |-> git_status \o commit \o push_cmd, failed |-> rc.push # 0]

PushItem(n, no_auto_pull, rc) ==
    LET challenge_path == DirStr(n)
        challenge_repo == LookupRepo(challenge_path)
        git_status == <<Call("git status", challenge_path, {"--porcelain"})>>
        commit == <<Call("git add", challenge_path, {}),
                    Call("git commit", challenge_path, {})>>
        push_cmd ==
            IF use_subrepo
            THEN <<Call("git subrepo push", challenge_path, {})>>
            ELSE <<Call("get_git_repo_head_branch", challenge_repo, {}),
                   Call("git subtree push", challenge_path, {})>>
        auto_pull ==
            IF no_auto_pull THEN <<>>
            ELSE PullRun(challenge_path, "fast-forward", [m \in ChalIds |-> rc]).calls
    IN  IF challenge_repo = <<>> THEN [calls |-> <<>>, failed |-> TRUE]
        ELSE IF ~EndsWith(challenge_repo, GIT) THEN [calls |-> <<>>, failed |-> TRUE]
        ELSE IF rc.dirty = 0 /\ rc.status = 0 THEN [calls |-> git_status, failed |-> FALSE]
        ELSE IF rc.add # 0 \/ rc.commit # 0
             THEN [calls |-> git_status \o commit, failed |-> TRUE]
        ELSE IF rc.push # 0
             THEN [calls |-> git_status \o commit \o push_cmd, failed |-> TRUE]
        ELSE [calls |-> git_status \o commit \o push_cmd \o auto_pull, failed |-> FALSE]

\* the return codes a pass of push can see (calls that are not made return 0)
PushRcs(n, no_auto_pull) ==
    LET repo == LookupRepo(DirStr(n))
        pulls == IF no_auto_pull THEN {{}}
                 ELSE IF use_subrepo THEN {{}, {"pull"}}
                 ELSE {{"pull"}} \cup SUBSET {"mergetool", "pull_commit", "clean"}
        after == {{"add"}, {"commit"}, {"add", "commit"}, {"push"}} \cup pulls
    IN  IF repo = <<>> \/ ~EndsWith(repo, GIT) THEN {NoRc}
        ELSE {NoRc} \cup {Rc(B \cup A) : B \in {{"dirty"}, {"status"}}, A \in after}

PushInvoke(challenge, no_auto_pull, quiet) ==
    /\ Begin([Cmd("push", challenge) EXCEPT !.no_auto_pull = no_auto_pull, !.quiet = quiet],
             [Resolution(challenge) EXCEPT !.challenges = Context(quiet, @)],
             use_subrepo /\ ~subrepo_installed)
    /\ calls' = <<>>
    /\ UNCHANGED <<world, remote_challenges, failed_deployments>>

PushStep ==
    /\ pc = "loop" /\ cmd.name = "push" /\ idx < Len(items)
    /\ \E rc \in PushRcs(items[idx + 1], cmd.no_auto_pull) :
       \E n \in {items[idx + 1]} :
       \E one \in {PushItem(n, cmd.no_auto_pull, rc)} :
             /\ calls' = calls \o one.calls
             /\ failed' = IF one.failed THEN Append(failed, n) ELSE failed
             /\ rcs' = rc
    /\ idx' = idx + 1
    /\ UNCHANGED <<world, pc, cmd, items, in_sync, out_of_sync, failed_deployments,
                   remote_challenges, status, prev, report>>

\* a push that gives up at the first failed item
PushReturnAtFirstFailure ==
    /\ pc = "loop" /\ cmd.name = "push" /\ (idx = Len(items) \/ Len(failed) > 0)
    /\ status' = IF Len(failed) = 0 THEN <<0>> ELSE <<1>>
    /\ pc' = "done"
    /\ report' = FailedListing("Push failed for:", cmd.quiet, failed)
    /\ UNCHANGED <<world, cmd, items, idx, failed, in_sync, out_of_sync,
                   failed_deployments, remote_challenges, calls, rcs, prev>>

PushReturn ==
    /\ pc = "loop" /\ cmd.name = "push" /\ idx = Len(items)
    /\ status' = IF Len(failed) = 0 THEN <<0>> ELSE <<1>>
    /\ pc' = "done"
    /\ report' = FailedListing("Push failed for:", cmd.quiet, failed)
    /\ UNCHANGED <<world, cmd, items, idx, failed, in_sync, out_of_sync,
                   failed_deployments, remote_challenges, calls, rcs, prev>>

----------------------------------------------------------------------------
(* restore *)

\* (config.project_path / challenge_key).exists(): the path itself, or a file
\* of a challenge directory that is present
PathExists(path) ==
    \/ path \in dirs
    \/ \E n \in ChalIds : DirStr(n) \in dirs /\ Len(path) > 1 /\ path[1] = ToString(n)

\* a restore pass that adds the subtree without looking at the target directory
RestoreItemOverwriting(entry, challenge, rc, rcOf) ==
    LET challenge_key == entry.key
        challenge_source == entry.source
        skip == [calls |-> <<>>, failed |-> FALSE, raised |-> FALSE, added |-> {}]
    IN  IF challenge # <<>> /\ challenge_key # challenge THEN skip
        ELSE IF ~EndsWith(challenge_source, GIT) THEN skip
        ELSE IF EndsWith(challenge_key, YML) THEN [skip EXCEPT !.failed = TRUE]
        ELSE [calls |-> <<Call("get_git_repo_head_branch", challenge_source, {}),
                          Call("git subtree add", challenge_key, {"--squash"})>>,
              failed |-> rc.subtree_add # 0,
              raised |-> FALSE,
              added |-> IF rc.subtree_add = 0 THEN {challenge_key} ELSE {}]

\* one pass of restore's loop over a Registry item: the calls it makes, whether
\* the key joins failed_restores, whether an exception escapes, the paths it adds
RestoreItem(entry, challenge, rc, rcOf) ==
    LET challenge_key == entry.key
        challenge_source == entry.source
        force_pull == PullRun(challenge, "force", rcOf)
        skip == [calls |-> <<>>, failed |-> FALSE, raised |-> FALSE, added |-> {}]
    IN  IF challenge # <<>> /\ challenge_key # challenge THEN skip
        ELSE IF ~EndsWith(challenge_source, GIT) THEN skip
        ELSE IF EndsWith(challenge_key, YML) THEN [skip EXCEPT !.failed = TRUE]
        ELSE IF use_subrepo
             THEN [calls |-> force_pull.calls,
                   failed |-> ~force_pull.raised /\ force_pull.status # 0,
                   raised |-> force_pull.raised,
                   added |-> {}]
        ELSE IF PathExists(challenge_key) THEN [skip EXCEPT !.failed = TRUE]
        ELSE [calls |-> <<Call("get_git_repo_head_branch", challenge_source, {}),
                          Call("git subtree add", challenge_key, {"--squash"})>>,
              failed |-> rc.subtree_add # 0,
              raised |-> FALSE,
              added |-> IF rc.subtree_add = 0 THEN {challenge_key} ELSE {}]

\* the return codes a pass of restore can see
RestoreRcs(entry, challenge) ==
    IF (challenge # <<>> /\ entry.key # challenge) \/ ~EndsWith(entry.source, GIT)
       \/ EndsWith(entry.key, YML) \/ use_subrepo \/ PathExists(entry.key)
    THEN {NoRc}
    ELSE {NoRc, Rc({"subtree_add"})}

\* the return codes of the forced pull's passes, per challenge
ForcePullRcs ==
    IF use_subrepo
    THEN {f \in [ChalIds -> {NoRc, Rc({"pull"})}] : \A n \in ChalIds : f[n] \in PullRcs(n)}
    ELSE {[n \in ChalIds |-> NoRc]}

RestoreInvoke(challenge) ==
    /\ Begin(Cmd("restore", challenge),
             [raised |-> FALSE, none |-> Len(registry) = 0, challenges |-> registry],
             use_subrepo /\ ~subrepo_installed)
    /\ calls' = <<>>
    /\ UNCHANGED <<world, remote_challenges, failed_deployments>>

RestoreStep ==
    /\ pc = "loop" /\ cmd.name = "restore" /\ idx < Len(items)
    /\ \E rc \in RestoreRcs(items[idx + 1], cmd.challenge), rcOf \in ForcePullRcs :
       \E one \in {RestoreItem(items[idx + 1], cmd.challenge, rc, rcOf)} :
             /\ calls' = calls \o one.calls
             /\ failed' = IF one.failed THEN Append(failed, items[idx + 1].key) ELSE failed
             /\ pc' = IF one.raised THEN "raised" ELSE pc
             /\ dirs' = dirs \cup one.added
             /\ rcs' = rc
    /\ idx' = idx + 1
    /\ UNCHANGED <<registry, use_subrepo, subrepo_installed, local, remote, cmd, items,
                   in_sync, out_of_sync, failed_deployments, remote_challenges, status, prev, report>>

RestoreReturn ==
    /\ pc = "loop" /\ cmd.name = "restore" /\ idx = Len(items)
    /\ status' = IF Len(failed) = 0 THEN <<0>> ELSE <<1>>
    /\ pc' = "done"
    /\ report' = FailedListing("Restore failed for:", FALSE, failed)
    /\ UNCHANGED <<world, cmd, items, idx, failed, in_sync, out_of_sync,
                   failed_deployments, remote_challenges, calls, rcs, prev>>

----------------------------------------------------------------------------
(* The Challenge entity's operations (ctfcli.core.challenge, not in src/):  *)
(* create, sync, verify and mirror, as the specification describes them.    *)

\* the attributes of a challenge that reconciliation compares and copies
Fields == {"description", "flags", "topics", "tags", "files", "hints", "requirements",
           "state"}

\* an ignore list that leaves the state to be overwritten
DeployIgnoreWithoutState == {"flags", "topics", "tags", "files", "hints", "requirements"}

\* the ignore list deploy passes to sync
DeployIgnore == {"flags", "topics", "tags", "files", "hints", "requirements", "state"}

\* the entity's remote counterpart: the first remote challenge of its identity
Counterparts(n) == {i \in 1..Len(remote) : remote[i].id = local[n].id}
Counterpart(n) == CHOOSE i \in Counterparts(n) : \A j \in Counterparts(n) : i <= j

\* Challenge.create(ignore): the challenge is installed with the fields not ignored
EntityCreate(n, ignore, rc) ==
    IF rc.create # 0 THEN [raised |-> TRUE, remote |-> remote]
    ELSE [raised |-> FALSE,
          remote |-> Append(remote,
                            [id |-> local[n].id, name |-> local[n].name,
                             fields |-> [f \in Fields |->
                                           IF f \in ignore THEN 0 ELSE local[n].fields[f]]])]

\* Challenge.sync(ignore): every field not ignored is pushed to the counterpart
EntitySync(n, ignore, rc) ==
    IF rc.sync # 0 \/ Counterparts(n) = {} THEN [raised |-> TRUE, remote |-> remote]
    ELSE [raised |-> FALSE,
          remote |-> [remote EXCEPT ![Counterpart(n)].fields =
                        [f \in Fields |-> IF f \in ignore THEN @[f] ELSE local[n].fields[f]]]]

\* Challenge.verify(ignore): "raise", or whether local and remote are field-equal
EntityVerify(n, ignore) ==
    IF Counterparts(n) = {} THEN "raise"
    ELSE IF \A f \in Fields \ ignore : remote[Counterpart(n)].fields[f] = local[n].fields[f]
         THEN "true" ELSE "false"

\* Challenge.mirror(ignore): every field not ignored is pulled from the counterpart
EntityMirror(n, ignore, rc) ==
    IF rc.mirror # 0 \/ Counterparts(n) = {} THEN [raised |-> TRUE, local |-> local]
    ELSE [raised |-> FALSE,
          local |-> [local EXCEPT ![n].fields =
                       [f \in Fields |->
                          IF f \in ignore THEN @[f] ELSE remote[Counterpart(n)].fields[f]]]]

LoadInstalledChallenges == Call("load_installed_challenges", <<>>, {})

----------------------------------------------------------------------------
(* add *)

\* Path(repo).stem of a repository URL: the last name without its suffix
Stem(repo) == <<repo[Len(repo) - 1]>>

\* config["challenges"][key] = value: an existing key keeps its place
SetKey(reg, key, value) ==
    IF \E i \in 1..Len(reg) : reg[i].key = key
    THEN [i \in 1..Len(reg) |-> IF reg[i].key = key THEN [key |-> key, source |-> value]
                                                  ELSE reg[i]]
    ELSE Append(reg, [key |-> key, source |-> value])

\* str(new_challenge.challenge_id) of the challenge in directory n
ChallengeIdStr(n) == <<ToString(local[n].id)>>

\* add of a repository URL, after the backend check: what it calls, whether an
\* exception escapes, the status, and what it leaves in the remote platform,
\* the Registry file and the working tree
AddGit(repo, directory, branch, force, yaml_path, rc) ==
    LET repository_basename == Stem(repo)
        repository_path == IF directory # <<>> THEN Join(directory, repository_basename)
                           ELSE repository_basename
        challenge_path == Join(Cwd, repository_path)
        challenge_key == IF yaml_path # <<>> THEN Join(challenge_path, yaml_path)
                         ELSE challenge_path
        new_challenge == IF yaml_path # <<>> THEN LoadFile(yaml_path)
                         ELSE LoadFile(Join(challenge_path, ChallengeYml))
        n == new_challenge[1]
        created == EntityCreate(n, {}, rc)
        config == SetKey(registry, ChallengeIdStr(n), challenge_key)
        cmd_calls ==
            IF use_subrepo
            THEN <<Call("git subrepo clone", challenge_path,
                        (IF branch # <<>> THEN {"-b"} ELSE {}) \cup (IF force THEN {"-f"} ELSE {}))>>
            ELSE <<Call("get_git_repo_head_branch", repo, {}),
                   Call("git subtree add", challenge_path, {"--squash"})>>
        commit == <<Call("git add", <<".ctf/config">>, {}), Call("git commit", <<>>, {})>>
        nothing == [raised |-> FALSE, status |-> <<1>>, calls |-> <<>>, remote |-> remote,
                    registry |-> registry, dirs |-> dirs]
    IN  IF new_challenge = <<>> THEN [nothing EXCEPT !.raised = TRUE, !.status = <<>>]
        ELSE IF created.raised
             THEN [nothing EXCEPT !.raised = TRUE, !.status = <<>>,
                                  !.calls = <<Call("create", DirStr(n), {})>>]
        ELSE IF rc.add_cmd # 0
             THEN [nothing EXCEPT !.calls = <<Call("create", DirStr(n), {})>> \o cmd_calls,
                                  !.remote = created.remote]
        ELSE [raised |-> FALSE,
              status |-> IF rc.add # 0 \/ rc.commit # 0 THEN <<1>> ELSE <<0>>,
              calls |-> <<Call("create", DirStr(n), {})>> \o cmd_calls \o commit,
              remote |-> created.remote,
              registry |-> config,
              dirs |-> dirs \cup {challenge_path}]

\* add of a folder path
AddFolder(repo, rc) ==
    LET new_challenge == LoadFile(Join(repo, ChallengeYml))
        n == new_challenge[1]
        created == EntityCreate(n, {}, rc)
        nothing == [raised |-> FALSE, status |-> <<1>>, calls |-> <<>>, remote |-> remote,
                    registry |-> registry, dirs |-> dirs]
    IN  IF ~PathExists(repo) THEN nothing
        ELSE IF new_challenge = <<>> THEN [nothing EXCEPT !.raised = TRUE, !.status = <<>>]
        ELSE IF created.raised
             THEN [nothing EXCEPT !.raised = TRUE, !.status = <<>>,
                                  !.calls = <<Call("create", DirStr(n), {})>>]
        ELSE [raised |-> FALSE, status |-> <<0>>,
              calls |-> <<Call("create", DirStr(n), {})>>,
              remote |-> created.remote,
              registry |-> SetKey(registry, ChallengeIdStr(n), repo),
              dirs |-> dirs]

\* an add that does not look for the subrepo helper
AddRunUnchecked(repo, directory, branch, force, yaml_path, rc) ==
    IF EndsWith(repo, GIT)
    THEN AddGit(repo, directory, branch, force, yaml_path, rc)
    ELSE AddFolder(repo, rc)

\* the whole of add
AddRun(repo, directory, branch, force, yaml_path, rc) ==
    IF EndsWith(repo, GIT)
    THEN IF use_subrepo /\ ~subrepo_installed
         THEN [raised |-> FALSE, status |-> <<1>>, calls |-> <<>>, remote |-> remote,
               registry |-> registry, dirs |-> dirs]
         ELSE AddGit(repo, directory, branch, force, yaml_path, rc)
    ELSE AddFolder(repo, rc)

AddRcs == {Rc(S) : S \in {{}, {"create"}, {"add_cmd"}, {"add"}, {"commit"}}}

Add(repo, directory, branch, force, yaml_path) ==
    /\ pc = "idle"
    /\ \E rc \in AddRcs :
       \E one \in {AddRun(repo, directory, branch, force, yaml_path, rc)} :
            /\ pc' = IF one.raised THEN "raised" ELSE "done"
            /\ status' = one.status
            /\ calls' = one.calls
            /\ remote' = one.remote
            /\ registry' = one.registry
            /\ dirs' = one.dirs
            /\ rcs' = rc
    /\ cmd' = [Cmd("add", <<>>) EXCEPT !.repo = repo, !.directory = directory,
                                       !.yaml_path = yaml_path]
    /\ items' = <<>>
    /\ idx' = 0
    /\ failed' = <<>>
    /\ in_sync' = <<>>
    /\ out_of_sync' = <<>>
    /\ prev' = <<>>
    /\ report' = <<>>
    /\ UNCHANGED <<use_subrepo, subrepo_installed, local, failed_deployments,
                   remote_challenges>>

----------------------------------------------------------------------------
(* install *)

\* an install pass that does not look for the challenge in the listing
InstallItemUnchecked(n, force, ignore, listing, rc) ==
    [calls |-> <<Call("create", DirStr(n), ignore)>>,
     failed |-> EntityCreate(n, ignore, rc).raised,
     remote |-> EntityCreate(n, ignore, rc).remote]

\* one pass of install's loop
InstallItem(n, force, ignore, listing, rc) ==
    LET found_duplicate == \E i \in 1..Len(listing) : listing[i].id = local[n].id
        synced == EntitySync(n, ignore, rc)
        created == EntityCreate(n, ignore, rc)
    IN  IF found_duplicate
        THEN IF ~force THEN [calls |-> <<>>, failed |-> TRUE, remote |-> remote]
             ELSE [calls |-> <<Call("sync", DirStr(n), ignore)>>,
                   failed |-> synced.raised, remote |-> synced.remote]
        ELSE [calls |-> <<Call("create", DirStr(n), ignore)>>,
              failed |-> created.raised, remote |-> created.remote]

InstallRcs(n, force, listing) ==
    IF \E i \in 1..Len(listing) : listing[i].id = local[n].id
    THEN IF force THEN {NoRc, Rc({"sync"})} ELSE {NoRc}
    ELSE {NoRc, Rc({"create"})}

InstallInvoke(challenge, force, ignore) ==
    /\ Begin([Cmd("install", challenge) EXCEPT !.force = force, !.ignore = ignore],
             Resolution(challenge), FALSE)
    /\ IF Resolution(challenge).raised \/ Resolution(challenge).none
       THEN calls' = <<>> /\ remote_challenges' = <<>>
       ELSE calls' = <<LoadInstalledChallenges>> /\ remote_challenges' = remote
    /\ UNCHANGED <<world, failed_deployments>>

InstallStep ==
    /\ pc = "loop" /\ cmd.name = "install" /\ idx < Len(items)
    /\ \E rc \in InstallRcs(items[idx + 1], cmd.force, remote_challenges) :
       \E n \in {items[idx + 1]} :
       \E one \in {InstallItem(n, cmd.force, cmd.ignore, remote_challenges, rc)} :
             /\ calls' = calls \o one.calls
             /\ failed' = IF one.failed THEN Append(failed, n) ELSE failed
             /\ remote' = one.remote
             /\ rcs' = rc
    /\ idx' = idx + 1
    /\ UNCHANGED <<registry, use_subrepo, subrepo_installed, dirs, local, pc, cmd, items,
                   in_sync, out_of_sync, failed_deployments, remote_challenges, status, prev, report>>

InstallReturn ==
    /\ pc = "loop" /\ cmd.name = "install" /\ idx = Len(items)
    /\ status' = IF Len(failed) = 0 THEN <<0>> ELSE <<1>>
    /\ pc' = "done"
    /\ report' = FailedListing("Install failed for:", FALSE, failed)
    /\ UNCHANGED <<world, cmd, items, idx, failed, in_sync, out_of_sync,
                   failed_deployments, remote_challenges, calls, rcs, prev>>

----------------------------------------------------------------------------
(* sync *)

\* a sync pass that does not look for the challenge in the listing
SyncItemUnchecked(n, ignore, listing, rc) ==
    [calls |-> <<Call("sync", DirStr(n), ignore)>>,
     failed |-> EntitySync(n, ignore, rc).raised,
     remote |-> EntitySync(n, ignore, rc).remote]

\* one pass of sync's loop
SyncItem(n, ignore, listing, rc) ==
    LET synced == EntitySync(n, ignore, rc)
    IN  IF ~\E i \in 1..Len(listing) : listing[i].id = local[n].id
        THEN [calls |-> <<>>, failed |-> TRUE, remote |-> remote]
        ELSE [calls |-> <<Call("sync", DirStr(n), ignore)>>,
              failed |-> synced.raised, remote |-> synced.remote]

SyncRcs(n, listing) ==
    IF \E i \in 1..Len(listing) : listing[i].id = local[n].id
    THEN {NoRc, Rc({"sync"})} ELSE {NoRc}

SyncInvoke(challenge, ignore) ==
    /\ Begin([Cmd("sync", challenge) EXCEPT !.ignore = ignore], Resolution(challenge), FALSE)
    /\ IF Resolution(challenge).raised \/ Resolution(challenge).none
       THEN calls' = <<>> /\ remote_challenges' = <<>>
       ELSE calls' = <<LoadInstalledChallenges>> /\ remote_challenges' = remote
    /\ UNCHANGED <<world, failed_deployments>>

SyncStep ==
    /\ pc = "loop" /\ cmd.name = "sync" /\ idx < Len(items)
    /\ \E rc \in SyncRcs(items[idx + 1], remote_challenges) :
       \E n \in {items[idx + 1]} :
       \E one \in {SyncItem(n, cmd.ignore, remote_challenges, rc)} :
             /\ calls' = calls \o one.calls
             /\ failed' = IF one.failed THEN Append(failed, n) ELSE failed
             /\ remote' = one.remote
             /\ rcs' = rc
    /\ idx' = idx + 1
    /\ UNCHANGED <<registry, use_subrepo, subrepo_installed, dirs, local, pc, cmd, items,
                   in_sync, out_of_sync, failed_deployments, remote_challenges, status, prev, report>>

SyncReturn ==
    /\ pc = "loop" /\ cmd.name = "sync" /\ idx = Len(items)
    /\ status' = IF Len(failed) = 0 THEN <<0>> ELSE <<1>>
    /\ pc' = "done"
    /\ report' = FailedListing("Sync failed for:", FALSE, failed)
    /\ UNCHANGED <<world, cmd, items, idx, failed, in_sync, out_of_sync,
                   failed_deployments, remote_challenges, calls, rcs, prev>>

----------------------------------------------------------------------------
(* verify *)

\* a verify pass that pushes the local definition when it finds a difference
VerifyItemRepairing(n, ignore) ==
    LET v == EntityVerify(n, ignore)
    IN  [calls |-> <<Call("verify", DirStr(n), ignore)>>
                   \o (IF v = "false" THEN <<Call("sync", DirStr(n), ignore)>> ELSE <<>>),
         list |-> IF v = "raise" THEN "failed_verifications"
                  ELSE IF v = "false" THEN "challenges_out_of_sync"
                  ELSE "challenges_in_sync"]

\* a verify pass that files a challenge out of sync under the failed verifications
VerifyItemFailingOutOfSync(n, ignore) ==
    LET v == EntityVerify(n, ignore)
    IN  [calls |-> <<Call("verify", DirStr(n), ignore)>>,
         list |-> IF v = "true" THEN "challenges_in_sync" ELSE "failed_verifications"]

\* one pass of verify's loop: the list the challenge is appended to
VerifyItem(n, ignore) ==
    LET v == EntityVerify(n, ignore)
    IN  [calls |-> <<Call("verify", DirStr(n), ignore)>>,
         list |-> IF v = "raise" THEN "failed_verifications"
                  ELSE IF v = "false" THEN "challenges_out_of_sync"
                  ELSE "challenges_in_sync"]

\* a status that counts a failed verification as a challenge out of sync
VerifyStatusCountingFailures(failed_verifications, challenges_in_sync, challenges_out_of_sync) ==
    IF Len(challenges_out_of_sync) + Len(failed_verifications) > 1 THEN 2 ELSE 1

\* a status that counts the challenges verified instead of those out of sync
VerifyStatusByTotal(failed_verifications, challenges_in_sync, challenges_out_of_sync) ==
    IF Len(failed_verifications) = 0
    THEN IF Len(challenges_in_sync) + Len(challenges_out_of_sync) > 1 THEN 2 ELSE 1
    ELSE 1

\* the status verify returns after the loop
VerifyStatus(failed_verifications, challenges_in_sync, challenges_out_of_sync) ==
    IF Len(failed_verifications) = 0
    THEN IF Len(challenges_out_of_sync) > 1 THEN 2 ELSE 1
    ELSE 1

VerifyInvoke(challenge, ignore) ==
    /\ Begin([Cmd("verify", challenge) EXCEPT !.ignore = ignore], Resolution(challenge), FALSE)
    /\ IF Resolution(challenge).raised \/ Resolution(challenge).none
       THEN calls' = <<>> /\ remote_challenges' = <<>>
       ELSE calls' = <<LoadInstalledChallenges>> /\ remote_challenges' = remote
    /\ UNCHANGED <<world, failed_deployments>>

VerifyStep ==
    /\ pc = "loop" /\ cmd.name = "verify" /\ idx < Len(items)
    /\ \E n \in {items[idx + 1]} :
       \E one \in {VerifyItem(n, cmd.ignore)} :
           /\ calls' = calls \o one.calls
           /\ failed' = IF one.list = "failed_verifications" THEN Append(failed, n) ELSE failed
           /\ in_sync' = IF one.list = "challenges_in_sync" THEN Append(in_sync, n) ELSE in_sync
           /\ out_of_sync' = IF one.list = "challenges_out_of_sync"
                             THEN Append(out_of_sync, n) ELSE out_of_sync
    /\ idx' = idx + 1
    /\ UNCHANGED <<world, pc, cmd, items, failed_deployments, remote_challenges, rcs,
                   status, prev, report>>

VerifyReturn ==
    /\ pc = "loop" /\ cmd.name = "verify" /\ idx = Len(items)
    /\ status' = <<VerifyStatus(failed, in_sync, out_of_sync)>>
    /\ pc' = "done"
    /\ report' = VerifyListing(failed, in_sync, out_of_sync)
    /\ UNCHANGED <<world, cmd, items, idx, failed, in_sync, out_of_sync,
                   failed_deployments, remote_challenges, calls, rcs, prev>>

----------------------------------------------------------------------------
(* mirror *)

\* Challenge.clone(config, remote_challenge): a local definition materialized
\* from the remote snapshot, in the directory named after the challenge
CloneDirs(r, d) == d \cup {<<r.name>>}
CloneLocal(r, l) ==
    [n \in ChalIds |->
       IF ToString(n) = r.name
       THEN [l[n] EXCEPT !.id = r.id, !.name = r.name, !.fields = r.fields]
       ELSE l[n]]

\* mirror's pass over the remote listing, before its loop: every remote challenge
\* whose name is not among the selected local ones is reported and, with create,
\* cloned and mirrored outside any try; the mirror of the raise_at-th one raises
RECURSIVE RemoteOnlyPass(_, _, _, _, _, _, _)
RemoteOnlyPass(listing, i, names, create, ignore, raise_at, acc) ==
    IF i > Len(listing) THEN acc
    ELSE IF listing[i].name \in names \/ ~create
         THEN RemoteOnlyPass(listing, i + 1, names, create, ignore, raise_at, acc)
    ELSE LET r == listing[i]
             cloned == [calls |-> acc.calls \o <<Call("clone", <<r.name>>, {}),
                                                Call("mirror", <<r.name>>, ignore)>>,
                        raised |-> raise_at = i,
                        dirs |-> CloneDirs(r, acc.dirs),
                        local |-> CloneLocal(r, acc.local)]
         IN  IF raise_at = i THEN cloned
             ELSE RemoteOnlyPass(listing, i + 1, names, create, ignore, raise_at, cloned)

\* where the mirror of a cloned challenge can raise: nowhere (0), or at a remote-only one
RaiseAts(listing, names, create) ==
    {0} \cup {i \in 1..Len(listing) : create /\ listing[i].name \notin names}

\* a mirror pass that mirrors whatever verify answered
MirrorItemAlways(n, skip_verify, ignore, rc) ==
    LET v == EntityVerify(n, ignore)
        verify_call == IF skip_verify THEN <<>> ELSE <<Call("verify", DirStr(n), ignore)>>
        mirrored == EntityMirror(n, ignore, rc)
    IN  IF ~skip_verify /\ v = "raise"
        THEN [calls |-> verify_call, failed |-> TRUE, local |-> local]
        ELSE [calls |-> verify_call \o <<Call("mirror", DirStr(n), ignore)>>,
              failed |-> mirrored.raised, local |-> mirrored.local]

\* one pass of mirror's loop
MirrorItem(n, skip_verify, ignore, rc) ==
    LET v == EntityVerify(n, ignore)
        verify_call == IF skip_verify THEN <<>> ELSE <<Call("verify", DirStr(n), ignore)>>
        mirrored == EntityMirror(n, ignore, rc)
    IN  IF ~skip_verify /\ v = "raise"
        THEN [calls |-> verify_call, failed |-> TRUE, local |-> local]
        ELSE IF ~skip_verify /\ v = "true"
             THEN [calls |-> verify_call, failed |-> FALSE, local |-> local]
        ELSE [calls |-> verify_call \o <<Call("mirror", DirStr(n), ignore)>>,
              failed |-> mirrored.raised, local |-> mirrored.local]

MirrorRcs(n, skip_verify, ignore) ==
    IF ~skip_verify /\ EntityVerify(n, ignore) # "false" THEN {NoRc}
    ELSE {NoRc, Rc({"mirror"})}

MirrorInvoke(challenge, skip_verify, ignore, create) ==
    /\ pc = "idle"
    /\ \E res \in {Resolution(challenge)} :
       \E names \in {{local[res.challenges[i]].name : i \in 1..Len(res.challenges)}} :
       \E raise_at \in IF res.raised \/ res.none THEN {0} ELSE RaiseAts(remote, names, create) :
       \E pass \in {RemoteOnlyPass(remote, 1, names, create, ignore, raise_at,
                                   [calls |-> <<>>, raised |-> FALSE,
                                    dirs |-> dirs, local |-> local])} :
              /\ cmd' = [Cmd("mirror", challenge) EXCEPT !.skip_verify = skip_verify,
                                                       !.ignore = ignore, !.create = create]
              /\ idx' = 0
              /\ failed' = <<>>
              /\ in_sync' = <<>>
              /\ out_of_sync' = <<>>
              /\ prev' = <<>>
              /\ report' = <<>>
              /\ IF res.raised
                 THEN /\ pc' = "raised" /\ status' = <<>> /\ items' = <<>> /\ calls' = <<>>
                      /\ rcs' = NoRc /\ remote_challenges' = <<>>
                      /\ UNCHANGED <<dirs, local>>
                 ELSE IF res.none
                 THEN /\ pc' = "done" /\ status' = <<1>> /\ items' = <<>> /\ calls' = <<>>
                      /\ rcs' = NoRc /\ remote_challenges' = <<>>
                      /\ UNCHANGED <<dirs, local>>
                 ELSE /\ pc' = IF pass.raised THEN "raised" ELSE "loop"
                      /\ status' = <<>>
                      /\ items' = res.challenges
                      /\ calls' = <<LoadInstalledChallenges>> \o pass.calls
                      /\ rcs' = IF pass.raised THEN Rc({"clone_mirror"}) ELSE NoRc
                      /\ remote_challenges' = remote
                      /\ dirs' = pass.dirs
                      /\ local' = pass.local
              /\ UNCHANGED <<registry, use_subrepo, subrepo_installed, remote,
                             failed_deployments>>

MirrorStep ==
    /\ pc = "loop" /\ cmd.name = "mirror" /\ idx < Len(items)
    /\ \E rc \in MirrorRcs(items[idx + 1], cmd.skip_verify, cmd.ignore) :
       \E n \in {items[idx + 1]} :
       \E one \in {MirrorItem(n, cmd.skip_verify, cmd.ignore, rc)} :
             /\ calls' = calls \o one.calls
             /\ failed' = IF one.failed THEN Append(failed, n) ELSE failed
             /\ local' = one.local
             /\ rcs' = rc
    /\ idx' = idx + 1
    /\ UNCHANGED <<registry, use_subrepo, subrepo_installed, dirs, remote, pc, cmd, items,
                   in_sync, out_of_sync, failed_deployments, remote_challenges, status, prev, report>>

MirrorReturn ==
    /\ pc = "loop" /\ cmd.name = "mirror" /\ idx = Len(items)
    /\ status' = IF Len(failed) = 0 THEN <<0>> ELSE <<1>>
    /\ pc' = "done"
    /\ report' = FailedListing("Mirror failed for:", FALSE, failed)
    /\ UNCHANGED <<world, cmd, items, idx, failed, in_sync, out_of_sync,
                   failed_deployments, remote_challenges, calls, rcs, prev>>

----------------------------------------------------------------------------
(* deploy *)

\* bool(urlparse(target_host).netloc): the host has a URI scheme
HasNetloc(target_host) == Len(target_host) >= 3 /\ target_host[2] = "://"

RECURSIVE WithImage(_, _)
WithImage(challenges, wanted) ==
    IF challenges = <<>> THEN <<>>
    ELSE (IF local[Head(challenges)].image = wanted THEN <<Head(challenges)>> ELSE <<>>)
         \o WithImage(Tail(challenges), wanted)

\* one pass of deploy's loop over a deployable challenge
DeployItem(n, host, rc) ==
    LET target_host == IF host # <<>> THEN host ELSE local[n].host
        deployed == <<Call("deploy", DirStr(n), {})>>
        connection_info == local[n].connection_info \/ rc.connection_info # 0
        existing_challenge == \E i \in 1..Len(remote) : remote[i].name = local[n].name
        saved == IF connection_info THEN <<Call("save", DirStr(n), {})>> ELSE <<>>
        saved_local == IF connection_info
                       THEN [local EXCEPT ![n].connection_info = TRUE] ELSE local
        synced == EntitySync(n, DeployIgnore, rc)
        created == EntityCreate(n, {}, rc)
        same == [calls |-> <<>>, failed_deployment |-> FALSE, failed_sync |-> FALSE,
                 remote |-> remote, local |-> local, fetched |-> FALSE]
    IN  IF target_host # <<>> /\ ~HasNetloc(target_host) THEN same
        ELSE IF rc.deploy # 0
             THEN [same EXCEPT !.calls = deployed, !.failed_deployment = TRUE]
        ELSE IF existing_challenge
             THEN [calls |-> deployed \o <<LoadInstalledChallenges>> \o saved
                             \o <<Call("sync", DirStr(n), DeployIgnore)>>,
                   failed_deployment |-> FALSE, failed_sync |-> synced.raised,
                   remote |-> synced.remote, local |-> saved_local, fetched |-> TRUE]
        ELSE [calls |-> deployed \o <<LoadInstalledChallenges>> \o saved
                        \o <<Call("create", DirStr(n), {})>>,
              failed_deployment |-> FALSE, failed_sync |-> created.raised,
              remote |-> created.remote, local |-> saved_local, fetched |-> TRUE]

DeployRcs(n, host) ==
    LET target_host == IF host # <<>> THEN host ELSE local[n].host
        conn == IF local[n].connection_info THEN {{}} ELSE {{}, {"connection_info"}}
        entity == IF \E i \in 1..Len(remote) : remote[i].name = local[n].name
                  THEN {{}, {"sync"}} ELSE {{}, {"create"}}
    IN  IF target_host # <<>> /\ ~HasNetloc(target_host) THEN {NoRc}
        ELSE {Rc({"deploy"})} \cup {Rc(C \cup E) : C \in conn, E \in entity}

DeployInvoke(challenge, host) ==
    /\ Begin([Cmd("deploy", challenge) EXCEPT !.host = host],
             [Resolution(challenge) EXCEPT
                 !.challenges = WithImage(Resolution(challenge).challenges, TRUE)],
             FALSE)
    /\ failed_deployments' = IF Resolution(challenge).raised THEN <<>>
                             ELSE WithImage(Resolution(challenge).challenges, FALSE)
    /\ calls' = <<>>
    /\ UNCHANGED <<world, remote_challenges>>

DeployStep ==
    /\ pc = "loop" /\ cmd.name = "deploy" /\ idx < Len(items)
    /\ \E rc \in DeployRcs(items[idx + 1], cmd.host) :
       \E n \in {items[idx + 1]} :
       \E one \in {DeployItem(n, cmd.host, rc)} :
             /\ calls' = calls \o one.calls
             /\ failed_deployments' = IF one.failed_deployment
                                      THEN Append(failed_deployments, n)
                                      ELSE failed_deployments
             /\ failed' = IF one.failed_sync THEN Append(failed, n) ELSE failed
             /\ remote_challenges' = IF one.fetched THEN remote ELSE remote_challenges
             /\ remote' = one.remote
             /\ local' = one.local
             /\ rcs' = rc
    /\ idx' = idx + 1
    /\ UNCHANGED <<registry, use_subrepo, subrepo_installed, dirs, pc, cmd, items,
                   in_sync, out_of_sync, status, prev, report>>

DeployReturn ==
    /\ pc = "loop" /\ cmd.name = "deploy" /\ idx = Len(items)
    /\ status' = IF Len(failed_deployments) = 0 /\ Len(failed) = 0 THEN <<0>> ELSE <<1>>
    /\ pc' = "done"
    /\ report' = DeployListing(failed_deployments, failed)
    /\ UNCHANGED <<world, cmd, items, idx, failed, in_sync, out_of_sync,
                   failed_deployments, remote_challenges, calls, rcs, prev>>

----------------------------------------------------------------------------
(* The process ends; what the command left in the stores stays *)

Exit ==
    /\ pc \in {"done", "raised"}
    /\ pc' = "idle"
    /\ cmd' = NoCmd
    /\ items' = <<>>
    /\ idx' = 0
    /\ failed' = <<>>
    /\ in_sync' = <<>>
    /\ out_of_sync' = <<>>
    /\ failed_deployments' = <<>>
    /\ remote_challenges' = <<>>
    /\ calls' = <<>>
    /\ rcs' = NoRc
    /\ status' = <<>>
    /\ report' = <<>>
    /\ prev' = IF cmd.name = "verify" /\ pc = "done"
               THEN <<[challenge |-> cmd.challenge, ignore |-> cmd.ignore, status |-> status,
                       failed |-> failed, in_sync |-> in_sync, out_of_sync |-> out_of_sync]>>
               ELSE <<>>
    /\ UNCHANGED world

----------------------------------------------------------------------------
(* Initial states *)

EntryKinds == {"absent", "fs", "git", "git_yml", "git_yaml"}

Entry(n, kind) ==
    CASE kind = "fs" -> <<[key |-> DirStr(n), source |-> LocalSource(n)]>>
      [] kind = "git" -> <<[key |-> DirStr(n), source |-> GitSource(n)]>>
      [] kind = "git_yml" -> <<[key |-> Join(DirStr(n), ChallengeYml), source |-> GitSource(n)]>>
      [] kind = "git_yaml" -> <<[key |-> Join(DirStr(n), CustomYaml), source |-> GitSource(n)]>>
      [] OTHER -> <<>>

RECURSIVE RegistryFrom(_, _)
RegistryFrom(kinds, n) ==
    IF n > NumChals THEN <<>> ELSE Entry(n, kinds[n]) \o RegistryFrom(kinds, n + 1)

Registries(Kinds) == {RegistryFrom(kinds, 1) : kinds \in [ChalIds -> Kinds]}

LocalFields == [f \in Fields |-> 1]
DefaultLocal ==
    [n \in ChalIds |-> [id |-> n, name |-> ToString(n), image |-> TRUE, host |-> <<>>,
                        connection_info |-> FALSE, fields |-> LocalFields]]

IdleRun ==
    /\ pc = "idle"
    /\ cmd = NoCmd
    /\ items = <<>>
    /\ idx = 0
    /\ failed = <<>>
    /\ in_sync = <<>>
    /\ out_of_sync = <<>>
    /\ failed_deployments = <<>>
    /\ remote_challenges = <<>>
    /\ calls = <<>>
    /\ rcs = NoRc
    /\ status = <<>>
    /\ prev = <<>>
    /\ report = <<>>

\* the transport commands over every Registry, working tree and backend
InitTransport ==
    /\ registry \in Registries({"absent", "fs", "git", "git_yml"})
    /\ use_subrepo \in BOOLEAN
    /\ subrepo_installed \in BOOLEAN
    /\ use_subrepo \/ ~subrepo_installed
    /\ dirs \in SUBSET {DirStr(n) : n \in ChalIds}
    /\ local = DefaultLocal
    /\ remote = <<>>
    /\ IdleRun

Selectors == {<<>>} \cup {DirStr(n) : n \in ChalIds}

NextTransport ==
    \/ \E challenge \in Selectors, no_auto_pull \in BOOLEAN :
         PushInvoke(challenge, no_auto_pull, FALSE)
    \/ PushStep
    \/ PushReturn
    \/ \E challenge \in Selectors, strategy \in {"fast-forward", "force", "bogus"} :
         PullInvoke(challenge, strategy, FALSE)
    \/ PullStep
    \/ PullReturn
    \/ \E challenge \in {<<>>} \cup {registry[i].key : i \in 1..Len(registry)} :
         RestoreInvoke(challenge)
    \/ RestoreStep
    \/ RestoreReturn
    \/ Exit

SpecTransport == InitTransport /\ [][NextTransport]_vars

\* what the remote platform holds for the challenge of directory n
RemoteKinds == {"absent", "same", "stale", "id_only", "name_only"}

RemoteEntry(n, kind) ==
    CASE kind = "same" -> <<[id |-> n, name |-> ToString(n), fields |-> LocalFields]>>
      [] kind = "stale" ->
            <<[id |-> n, name |-> ToString(n), fields |-> [f \in Fields |-> 0]]>>
      [] kind = "id_only" ->
            <<[id |-> n, name |-> "renamed" \o ToString(n), fields |-> LocalFields]>>
      [] kind = "name_only" ->
            <<[id |-> n + 10, name |-> ToString(n), fields |-> LocalFields]>>
      [] OTHER -> <<>>

RECURSIVE RemoteFrom(_, _)
RemoteFrom(kinds, n) ==
    IF n > NumChals THEN <<>> ELSE RemoteEntry(n, kinds[n]) \o RemoteFrom(kinds, n + 1)

Remotes(Kinds) == {RemoteFrom(kinds, 1) : kinds \in [ChalIds -> Kinds]}

IgnoreArgs == {{}, {"description"}}

\* the reconciliation commands start from every remote listing; every challenge
\* is in the Registry, its directory may be missing from the working tree
InitReconcile ==
    /\ registry \in Registries({"fs"})
    /\ use_subrepo = FALSE
    /\ subrepo_installed = FALSE
    /\ dirs \in SUBSET {DirStr(n) : n \in ChalIds}
    /\ local = DefaultLocal
    /\ remote \in Remotes(RemoteKinds)
    /\ IdleRun

\* install and sync
NextInstall ==
    \/ \E challenge \in Selectors, force \in BOOLEAN, ignore \in IgnoreArgs :
         InstallInvoke(challenge, force, ignore)
    \/ InstallStep
    \/ InstallReturn
    \/ \E challenge \in Selectors, ignore \in IgnoreArgs : SyncInvoke(challenge, ignore)
    \/ SyncStep
    \/ SyncReturn
    \/ Exit

SpecInstall == InitReconcile /\ [][NextInstall]_vars

\* verify, run any number of times
NextVerify ==
    \/ \E challenge \in Selectors, ignore \in IgnoreArgs : VerifyInvoke(challenge, ignore)
    \/ VerifyStep
    \/ VerifyReturn
    \/ Exit

SpecVerify == InitReconcile /\ [][NextVerify]_vars

\* mirror
NextMirror ==
    \/ \E challenge \in Selectors, skip_verify \in BOOLEAN, ignore \in IgnoreArgs,
          create \in BOOLEAN :
         MirrorInvoke(challenge, skip_verify, ignore, create)
    \/ MirrorStep
    \/ MirrorReturn
    \/ Exit

SpecMirror == InitReconcile /\ [][NextMirror]_vars

\* deploy: what the challenge.yml of directory n says about its service
LocalKinds == {"plain", "no_image", "no_scheme"}

LocalEntry(n, kind) ==
    CASE kind = "no_image" -> [DefaultLocal[n] EXCEPT !.image = FALSE]
      [] kind = "no_scheme" -> [DefaultLocal[n] EXCEPT !.host = <<"host">>]
      [] OTHER -> DefaultLocal[n]

InitDeploy ==
    /\ registry \in Registries({"fs"})
    /\ use_subrepo = FALSE
    /\ subrepo_installed = FALSE
    /\ dirs = {DirStr(n) : n \in ChalIds}
    /\ local \in {[n \in ChalIds |-> LocalEntry(n, kinds[n])] : kinds \in [ChalIds -> LocalKinds]}
    /\ remote \in Remotes({"absent", "stale", "id_only", "name_only"})
    /\ IdleRun

NextDeploy ==
    \/ \E challenge \in Selectors, host \in {<<>>, <<"registry", "://", "host">>} :
         DeployInvoke(challenge, host)
    \/ DeployStep
    \/ DeployReturn
    \/ Exit

SpecDeploy == InitDeploy /\ [][NextDeploy]_vars

\* add and the transport commands that follow it.  The remote platform starts
\* empty and every add that gets as far creates a challenge there: adds are
\* taken while the platform holds fewer than MaxAdds challenges.
MaxAdds == 2

InitAdd ==
    /\ registry \in Registries({"absent", "git"})
    /\ use_subrepo \in BOOLEAN
    /\ subrepo_installed \in BOOLEAN
    /\ use_subrepo \/ ~subrepo_installed
    /\ dirs \in SUBSET {DirStr(n) : n \in ChalIds}
    /\ local = DefaultLocal
    /\ remote = <<>>
    /\ IdleRun

Repos == {GitSource(n) : n \in ChalIds} \cup {DirStr(n) : n \in ChalIds}

NextAdd ==
    \/ \E repo \in Repos, directory \in {<<>>, <<"sub">>}, branch \in {<<>>, <<"main">>},
          force \in BOOLEAN, yaml_path \in {<<>>, Join(DirStr(1), ChallengeYml)} :
         Len(remote) < MaxAdds /\ Add(repo, directory, branch, force, yaml_path)
    \/ PushInvoke(<<>>, TRUE, FALSE)
    \/ PushStep
    \/ PushReturn
    \/ PullInvoke(<<>>, "fast-forward", FALSE)
    \/ PullStep
    \/ PullReturn
    \/ RestoreInvoke(<<>>)
    \/ RestoreStep
    \/ RestoreReturn
    \/ Exit

SpecAdd == InitAdd /\ [][NextAdd]_vars

\* one run of any batch command over all challenges
\* local definitions that all carry the identity of the first one (a challenge
\* directory copied under another name)
SharedIdentity == [n \in ChalIds |-> [DefaultLocal[n] EXCEPT !.id = 1]]

\* install and sync over definitions whose identities may coincide
InitListing ==
    /\ registry \in Registries({"fs"})
    /\ use_subrepo = FALSE
    /\ subrepo_installed = FALSE
    /\ dirs \in SUBSET {DirStr(n) : n \in ChalIds}
    /\ local \in {DefaultLocal, SharedIdentity}
    /\ remote \in Remotes({"absent", "same"})
    /\ IdleRun

SpecListing == InitListing /\ [][NextInstall]_vars

\* restore over git-sourced keys with and without a definition-file suffix
InitRestore ==
    /\ registry \in Registries({"absent", "git", "git_yml", "git_yaml"})
    /\ use_subrepo \in BOOLEAN
    /\ subrepo_installed = use_subrepo
    /\ dirs \in SUBSET {DirStr(n) : n \in ChalIds}
    /\ local = DefaultLocal
    /\ remote = <<>>
    /\ IdleRun

NextRestore ==
    \/ \E challenge \in {<<>>} \cup {registry[i].key : i \in 1..Len(registry)} :
         RestoreInvoke(challenge)
    \/ RestoreStep
    \/ RestoreReturn
    \/ Exit

SpecRestore == InitRestore /\ [][NextRestore]_vars

\* the selectors of one challenge: a directory name, a definition file, a
\* definition file of another name, the current directory
PathSelectors ==
    {DirStr(n) : n \in ChalIds}
        \cup {Join(DirStr(n), ChallengeYml) : n \in ChalIds}
        \cup {Join(DirStr(n), CustomYaml) : n \in ChalIds}
        \cup {<<".">>}

\* the commands that resolve a selector, each given one
NextSelector ==
    \/ \E challenge \in PathSelectors : PushInvoke(challenge, TRUE, FALSE)
    \/ PushStep
    \/ PushReturn
    \/ \E challenge \in PathSelectors : PullInvoke(challenge, "fast-forward", FALSE)
    \/ PullStep
    \/ PullReturn
    \/ \E challenge \in PathSelectors : InstallInvoke(challenge, FALSE, {})
    \/ InstallStep
    \/ InstallReturn
    \/ \E challenge \in PathSelectors : SyncInvoke(challenge, {})
    \/ SyncStep
    \/ SyncReturn
    \/ \E challenge \in PathSelectors : VerifyInvoke(challenge, {})
    \/ VerifyStep
    \/ VerifyReturn
    \/ \E challenge \in PathSelectors : MirrorInvoke(challenge, FALSE, {}, FALSE)
    \/ MirrorStep
    \/ MirrorReturn
    \/ \E challenge \in PathSelectors : DeployInvoke(challenge, <<>>)
    \/ DeployStep
    \/ DeployReturn
    \/ Exit

InitSelector ==
    /\ registry \in Registries({"git"})
    /\ use_subrepo = FALSE
    /\ subrepo_installed = FALSE
    /\ dirs \in SUBSET {DirStr(n) : n \in ChalIds}
    /\ local = DefaultLocal
    /\ remote \in Remotes({"same"})
    /\ IdleRun

SpecSelector == InitSelector /\ [][NextSelector]_vars

\* install, sync and deploy over remote listings whose challenges match a local
\* one by identity, by name, by both or by neither
InitIdentity ==
    /\ registry \in Registries({"fs"})
    /\ use_subrepo = FALSE
    /\ subrepo_installed = FALSE
    /\ dirs = {DirStr(n) : n \in ChalIds}
    /\ local = DefaultLocal
    /\ remote \in Remotes({"absent", "same", "id_only", "name_only"})
    /\ IdleRun

NextIdentity ==
    \/ \E challenge \in Selectors : InstallInvoke(challenge, FALSE, {})
    \/ InstallStep
    \/ InstallReturn
    \/ \E challenge \in Selectors : SyncInvoke(challenge, {})
    \/ SyncStep
    \/ SyncReturn
    \/ \E challenge \in Selectors : DeployInvoke(challenge, <<>>)
    \/ DeployStep
    \/ DeployReturn
    \/ Exit

SpecIdentity == InitIdentity /\ [][NextIdentity]_vars

\* push and pull, with and without quiet
NextQuiet ==
    \/ \E challenge \in Selectors, no_auto_pull \in BOOLEAN, quiet \in BOOLEAN :
         PushInvoke(challenge, no_auto_pull, quiet)
    \/ PushStep
    \/ PushReturn
    \/ \E challenge \in Selectors, strategy \in {"fast-forward", "force"}, quiet \in BOOLEAN :
         PullInvoke(challenge, strategy, quiet)
    \/ PullStep
    \/ PullReturn
    \/ Exit

SpecQuiet == InitTransport /\ [][NextQuiet]_vars

Init ==
    /\ registry \in Registries({"fs", "git"})
    /\ use_subrepo \in BOOLEAN
    /\ subrepo_installed \in BOOLEAN
    /\ use_subrepo \/ ~subrepo_installed
    /\ dirs \in SUBSET {DirStr(n) : n \in ChalIds}
    /\ local = DefaultLocal
    /\ remote \in Remotes({"absent", "stale"})
    /\ IdleRun

Next ==
    \/ \E no_auto_pull \in BOOLEAN : PushInvoke(<<>>, no_auto_pull, FALSE)
    \/ PushStep
    \/ PushReturn
    \/ PullInvoke(<<>>, "fast-forward", FALSE)
    \/ PullStep
    \/ PullReturn
    \/ RestoreInvoke(<<>>)
    \/ RestoreStep
    \/ RestoreReturn
    \/ \E force \in BOOLEAN : InstallInvoke(<<>>, force, {})
    \/ InstallStep
    \/ InstallReturn
    \/ SyncInvoke(<<>>, {})
    \/ SyncStep
    \/ SyncReturn
    \/ VerifyInvoke(<<>>, {})
    \/ VerifyStep
    \/ VerifyReturn
    \/ \E skip_verify \in BOOLEAN, create \in BOOLEAN : MirrorInvoke(<<>>, skip_verify, {}, create)
    \/ MirrorStep
    \/ MirrorReturn
    \/ Exit

Spec == Init /\ [][Next]_vars

----------------------------------------------------------------------------
(* Properties *)

BatchCommands == {"install", "sync", "verify", "mirror", "push", "pull", "restore"}

\* C1: continue-on-error.  In every batch command, whatever has failed so far,
\* a loop pass consumes exactly one item and leaves the command in its loop
\* (nothing returns or raises from inside the loop), no status exists before
\* the last item has been consumed, and a command that returned has consumed
\* every item.
C1_ContinueOnError ==
    /\ [](cmd.name \in BatchCommands =>
            /\ pc = "loop" => status = <<>> /\ idx <= Len(items)
            /\ pc = "done" => idx = Len(items) /\ status # <<>>)
    /\ [][cmd.name \in BatchCommands /\ pc = "loop" /\ idx < Len(items)
            => idx' = idx + 1 /\ pc' = "loop" /\ status' = <<>> /\ items' = items]_vars

\* a push over several challenges whose first item failed and whose last item
\* still had its git commands run
C1_Witness ==
    /\ pc = "done" /\ cmd.name = "push" /\ Len(items) = NumChals
    /\ Len(failed) > 0 /\ failed[1] = items[1]
    /\ \E i \in 1..Len(calls) : calls[i].on = DirStr(items[Len(items)])

\* a verify run that went through its loop and returned
VerifyReturned == pc = "done" /\ cmd.name = "verify" /\ Len(items) > 0

\* C2: verify returns status 0 whenever no verification errored and no selected
\* challenge is out of sync.
C2_VerifyAllInSyncReturnsZero ==
    VerifyReturned /\ failed = <<>> /\ out_of_sync = <<>> => status = <<0>>

\* C3: when no verification errored, verify returns 1 if exactly one selected
\* challenge is out of sync and 2 if two or more are, however many are in sync.
C3_VerifyOutOfSyncStatus ==
    VerifyReturned /\ failed = <<>> =>
        /\ Len(out_of_sync) = 1 => status = <<1>>
        /\ Len(out_of_sync) >= 2 => status = <<2>>

\* one challenge out of sync next to challenges in sync: status 1
C3_Witness ==
    /\ VerifyReturned /\ failed = <<>>
    /\ Len(out_of_sync) = 1 /\ Len(in_sync) = Len(items) - 1 /\ Len(items) > 1
    /\ status = <<1>>

\* C4: verify is read-only and idempotent.  Whatever the selector and the
\* ignore-set, the only calls a verify run makes are the listing fetch and the
\* entity's verify (never create, sync, mirror or save), no step of the run
\* changes the Registry, the working tree, the local definitions or the remote
\* platform, and a verify run that follows another with the same arguments
\* classifies every challenge as before and returns the same status.
C4_VerifyReadOnlyIdempotent ==
    /\ [](cmd.name = "verify" =>
            /\ \A i \in 1..Len(calls) :
                  calls[i].op \in {"verify", "load_installed_challenges"}
            /\ pc = "done" /\ prev # <<>> /\ prev[1].challenge = cmd.challenge
                  /\ prev[1].ignore = cmd.ignore =>
                    /\ prev[1].status = status
                    /\ prev[1].failed = failed
                    /\ prev[1].in_sync = in_sync
                    /\ prev[1].out_of_sync = out_of_sync)
    /\ [][cmd.name = "verify" \/ cmd'.name = "verify" => UNCHANGED world]_vars

\* a second verify over every challenge, with the arguments of the one before it,
\* that found a challenge out of sync
C4_Witness ==
    /\ VerifyReturned /\ prev # <<>>
    /\ prev[1].challenge = cmd.challenge /\ prev[1].ignore = cmd.ignore
    /\ Len(items) = NumChals /\ Len(out_of_sync) > 0

\* the Registry gives the challenge in directory n a filesystem source locator
FilesystemSourced(n) ==
    LookupRepo(DirStr(n)) # <<>> /\ ~EndsWith(LookupRepo(DirStr(n)), GIT)

\* calls [from, to) of the running command made on directory n or its source
CallsOn(n, from) ==
    {i \in from..Len(calls) : calls[i].on \in {DirStr(n), LookupRepo(DirStr(n))}}

\* C5: push and pull record every challenge whose Registry source locator is a
\* filesystem path as failed, so that the command returns 1, make no call for
\* it (no git subprocess) and never write the Registry.
C5_TransportSkipsFilesystemSourced ==
    /\ [](cmd.name \in {"push", "pull"} =>
            /\ \A k \in 1..idx : FilesystemSourced(items[k]) =>
                  /\ \E j \in 1..Len(failed) : failed[j] = items[k]
                  /\ CallsOn(items[k], 1) = {}
            /\ pc = "done" /\ (\E k \in 1..Len(items) : FilesystemSourced(items[k]))
                  => status = <<1>>)
    /\ [][cmd.name \in {"push", "pull"} \/ cmd'.name \in {"push", "pull"}
            => registry' = registry]_vars

\* push with no selector over a filesystem-sourced challenge and a git-sourced
\* one: the git-sourced one is pushed, the other only recorded as failed
C5_Witness ==
    /\ pc = "done" /\ cmd.name = "push" /\ cmd.challenge = <<>>
    /\ Len(items) >= 2 /\ FilesystemSourced(items[1]) /\ ~FilesystemSourced(items[2])
    /\ failed = <<items[1]>> /\ status = <<1>>
    /\ \E i \in 1..Len(calls) :
          calls[i].op \in {"git subtree push", "git subrepo push"}
          /\ calls[i].on = DirStr(items[2])
    /\ CallsOn(items[1], 1) = {}

\* the Registry item the restore loop has taken as its k-th is one the selector
\* lets through
RestoreSelects(k) == cmd.challenge = <<>> \/ items[k].key = cmd.challenge

\* C6: restore on a Registry entry whose source locator is a filesystem path
\* counts the entry as failed, so that restore returns a non-zero status, and
\* makes no call and adds nothing to the working tree for it.
C6_RestoreFailsFilesystemSourced ==
    cmd.name = "restore" =>
        /\ \A k \in 1..idx : RestoreSelects(k) /\ ~EndsWith(items[k].source, GIT) =>
              /\ \E j \in 1..Len(failed) : failed[j] = items[k].key
              /\ \A i \in 1..Len(calls) : calls[i].on \notin {items[k].key, items[k].source}
        /\ pc = "done" /\ (\E k \in 1..Len(items) :
                               RestoreSelects(k) /\ ~EndsWith(items[k].source, GIT))
              => status # <<0>>

\* the restore loop is about to take a git-sourced key, not a definition-file
\* key, whose target exists in the working tree
RestoreTargetExists ==
    /\ pc = "loop" /\ cmd.name = "restore" /\ idx < Len(items)
    /\ RestoreSelects(idx + 1)
    /\ EndsWith(items[idx + 1].source, GIT)
    /\ ~EndsWith(items[idx + 1].key, YML)
    /\ PathExists(items[idx + 1].key)

\* the pass makes no call, leaves the working tree alone, records the key as
\* failed and goes on with the loop
RefusedPass ==
    /\ calls' = calls
    /\ dirs' = dirs
    /\ failed' = Append(failed, items[idx + 1].key)
    /\ pc' = "loop"

\* C7 as stated: restore on a git-sourced Registry key whose target directory
\* exists is a no-op with failure under either backend: no git subprocess is
\* run, the key is recorded as failed and restore returns 1 without raising.
C7_RestoreExistingEitherBackend ==
    /\ [][RestoreTargetExists => RefusedPass]_vars
    /\ [](cmd.name = "restore" =>
            /\ pc # "raised"
            /\ pc = "done" /\ failed # <<>> => status = <<1>>)

\* C7 amended: under the built-in (subtree) backend, restore on a git-sourced
\* Registry key whose target directory exists runs no git subprocess, records
\* the key as failed and returns 1 without raising.
C7_RestoreExistingBuiltin ==
    /\ [][~use_subrepo /\ RestoreTargetExists => RefusedPass]_vars
    /\ [](cmd.name = "restore" /\ ~use_subrepo =>
            /\ pc # "raised"
            /\ pc = "done" /\ failed # <<>> => status = <<1>>)

\* a restore under the built-in backend that returned 1 having refused the one
\* git-sourced key it was given, whose directory is there
C7_Witness ==
    /\ pc = "done" /\ cmd.name = "restore" /\ ~use_subrepo
    /\ cmd.challenge # <<>> /\ cmd.challenge \in dirs
    /\ EndsWith(Get(cmd.challenge), GIT)
    /\ failed = <<cmd.challenge>> /\ calls = <<>> /\ status = <<1>>

\* the calls the step adds to those of the running command
NewCalls == SubSeq(calls', Len(calls) + 1, Len(calls'))

\* the number of calls of operation op among the calls c
CountOp(c, op) == Cardinality({i \in 1..Len(c) : c[i].op = op})

\* a deploy pass that deployed the service of its challenge successfully
DeployedPass ==
    /\ pc = "loop" /\ cmd.name = "deploy" /\ idx < Len(items) /\ idx' = idx + 1
    /\ CountOp(NewCalls, "deploy") = 1
    /\ rcs'.deploy = 0

\* what deploy looks for in the remote listing: a challenge of the same name
DeployCounterpart(n) == \E i \in 1..Len(remote) : remote[i].name = local[n].name

MirrorAllStarted ==
    cmd.name = "mirror" /\ cmd.challenge = <<>> /\ pc \in {"loop", "done", "raised"}

\* the remote challenge r has a name that no selected local challenge has
RemoteOnly(r) == \A k \in 1..Len(items) : local[items[k]].name # r.name

\* the number of calls of operation op made on the challenge named name
CountOpOn(op, name) ==
    Cardinality({i \in 1..Len(calls) : calls[i].op = op /\ calls[i].on = <<name>>})

\* C9: mirror with no selector.  A remote challenge whose name matches no local
\* challenge is, without the create flag, neither cloned nor mirrored; with the
\* create flag it is cloned exactly once and mirrored exactly once.  A remote
\* challenge that has a local counterpart is never cloned.
C9_MirrorRemoteOnly ==
    MirrorAllStarted =>
        \A i \in 1..Len(remote_challenges) :
            LET r == remote_challenges[i]
            IN  IF RemoteOnly(r)
                THEN IF cmd.create
                     THEN CountOpOn("clone", r.name) = 1 /\ CountOpOn("mirror", r.name) = 1
                     ELSE CountOpOn("clone", r.name) = 0 /\ CountOpOn("mirror", r.name) = 0
                ELSE CountOpOn("clone", r.name) = 0

\* the witness of C9's case: a mirror with the create flag whose first
\* remote-only challenge raised from its mirror, leaving a later one uncloned
C9_EscapedAtFirstRemoteOnly ==
    /\ MirrorAllStarted /\ cmd.create /\ pc = "raised"
    /\ \E i \in 1..Len(remote_challenges) :
          RemoteOnly(remote_challenges[i])
          /\ CountOpOn("clone", remote_challenges[i].name) = 0

\* the install loop is about to take a challenge; whether the listing fetched
\* at the start of the command holds a challenge of its identity
InstallPass == pc = "loop" /\ cmd.name = "install" /\ idx < Len(items)
InListing(n) == \E i \in 1..Len(remote_challenges) : remote_challenges[i].id = local[n].id

SyncPass == pc = "loop" /\ cmd.name = "sync" /\ idx < Len(items)

\* C11: sync records a local challenge with no remote counterpart of matching
\* identity as failed, without invoking the entity's sync for it, and returns 1;
\* for a challenge that has a remote counterpart it invokes the entity's sync
\* exactly once.
C11_SyncRequiresPresent ==
    /\ [][SyncPass =>
            LET n == items[idx + 1]
            IN  IF InListing(n)
                THEN NewCalls = <<Call("sync", DirStr(n), cmd.ignore)>>
                ELSE NewCalls = <<>> /\ failed' = Append(failed, n)]_vars
    /\ [](cmd.name = "sync" /\ pc = "done"
            /\ (\E k \in 1..Len(items) : ~InListing(items[k])) => status = <<1>>)

\* a sync over every challenge that failed one with no remote counterpart and
\* synced, once, one that has a counterpart
C11_Witness ==
    /\ pc = "done" /\ cmd.name = "sync" /\ Len(items) >= 2
    /\ ~InListing(items[1]) /\ InListing(items[2])
    /\ failed = <<items[1]>> /\ status = <<1>>
    /\ calls = <<LoadInstalledChallenges, Call("sync", DirStr(items[2]), cmd.ignore)>>

\* the six commands whose status is 0 or 1, run with any selector
NextStatus ==
    \/ \E challenge \in Selectors, no_auto_pull \in BOOLEAN :
         PushInvoke(challenge, no_auto_pull, FALSE)
    \/ PushStep
    \/ PushReturn
    \/ \E challenge \in Selectors : PullInvoke(challenge, "fast-forward", FALSE)
    \/ PullStep
    \/ PullReturn
    \/ \E challenge \in Selectors : RestoreInvoke(challenge)
    \/ RestoreStep
    \/ RestoreReturn
    \/ \E challenge \in Selectors, force \in BOOLEAN : InstallInvoke(challenge, force, {})
    \/ InstallStep
    \/ InstallReturn
    \/ \E challenge \in Selectors : SyncInvoke(challenge, {})
    \/ SyncStep
    \/ SyncReturn
    \/ \E challenge \in Selectors, create \in BOOLEAN :
         MirrorInvoke(challenge, FALSE, {}, create)
    \/ MirrorStep
    \/ MirrorReturn
    \/ Exit

SpecStatus == Init /\ [][NextStatus]_vars

ZeroOrOne == {"install", "sync", "mirror", "push", "pull", "restore"}

\* C12: install, sync, mirror, push, pull and restore return 0 exactly when the
\* command reached its loop (the selector resolved, the backend check passed)
\* and no item was recorded as failed during the pass, and 1 otherwise; they
\* return no other status.
C12_StatusZeroIffNoFailure ==
    /\ [][cmd'.name \in ZeroOrOne /\ pc' = "done" /\ pc # "done" =>
            IF pc = "loop" /\ failed = <<>> THEN status' = <<0>> ELSE status' = <<1>>]_vars
    /\ [](cmd.name \in ZeroOrOne =>
            /\ status \in {<<>>, <<0>>, <<1>>}
            /\ pc = "done" <=> status # <<>>)

\* a mirror over every challenge that failed one of several items and returned 1
C12_Witness ==
    /\ pc = "done" /\ cmd.name = "mirror" /\ Len(items) = NumChals
    /\ Len(failed) = 1 /\ status = <<1>>

\* C13: no entity-level failure escapes a batch command: whatever create, sync,
\* verify or mirror raise while install, sync, verify or mirror run, the mirror
\* of a remote-only challenge cloned under the create flag included, the command
\* does not end by an exception.
C13_NoEntityFailureEscapes ==
    cmd.name \in {"install", "sync", "verify", "mirror"} => pc # "raised"

\* the mirror of a challenge cloned under the create flag raised and ended the
\* command before its loop
C13_EscapedFromClone ==
    /\ cmd.name = "mirror" /\ cmd.create /\ pc = "raised" /\ rcs.clone_mirror # 0
    /\ idx = 0 /\ status = <<>>

\* the project is configured for git subrepo and the helper is not installed
BackendUnavailable == use_subrepo /\ ~subrepo_installed

\* the command is a transport command: add of a repository URL, push, pull, restore
TransportCommand(c) ==
    \/ c.name \in {"push", "pull", "restore"}
    \/ c.name = "add" /\ EndsWith(c.repo, GIT)

\* C14: backend-unavailable is checked before any mutation.  When use_subrepo is
\* set and the subrepo helper is not installed, add (of a repository), push,
\* pull and restore return 1 having made no call (no git subprocess, no create
\* on the remote platform), having processed no item, and having left the
\* Registry, the remote platform and the working tree as they were.
C14_BackendCheckedFirst ==
    /\ [](BackendUnavailable /\ TransportCommand(cmd) =>
            pc = "done" /\ status = <<1>> /\ calls = <<>> /\ idx = 0 /\ failed = <<>>)
    /\ [][BackendUnavailable /\ (TransportCommand(cmd) \/ TransportCommand(cmd'))
            => registry' = registry /\ remote' = remote /\ dirs' = dirs]_vars

\* an add of a repository whose challenge directory is there, refused because
\* the helper is missing
C14_Witness ==
    /\ BackendUnavailable /\ cmd.name = "add" /\ EndsWith(cmd.repo, GIT)
    /\ Stem(cmd.repo) \in dirs /\ cmd.yaml_path = <<>>
    /\ pc = "done" /\ status = <<1>>

\* an add of a repository URL that returned 0
AddedRepository ==
    cmd.name = "add" /\ EndsWith(cmd.repo, GIT) /\ pc = "done" /\ status = <<0>>

\* the project-relative path of the challenge the running add was given
AddedPath ==
    IF cmd.directory # <<>> THEN Join(cmd.directory, Stem(cmd.repo)) ELSE Stem(cmd.repo)

\* C15: after a successful add of a git repository URL the Registry holds an
\* entry whose key is the challenge's project-relative path (with the
\* definition-file path appended when a custom yaml path was given) and whose
\* value is the repository URL, so that push and pull find a git source locator
\* for the challenge by its path.
C15_RegistryShapeAfterAdd ==
    AddedRepository =>
        /\ \E i \in 1..Len(registry) :
              /\ registry[i].key = IF cmd.yaml_path # <<>>
                                   THEN Join(AddedPath, cmd.yaml_path) ELSE AddedPath
              /\ registry[i].source = cmd.repo
        /\ EndsWith(LookupRepo(AddedPath), GIT)

\* a successful add of a repository into an empty Registry left one entry, the
\* challenge path under the challenge's id
C15_IdKeyedPath ==
    /\ AddedRepository /\ cmd.yaml_path = <<>> /\ cmd.directory = <<>>
    /\ Len(registry) = 1
    /\ registry[1].key = ChallengeIdStr(IntOf(Stem(cmd.repo)))
    /\ registry[1].source = AddedPath

\* a push or pull over every Registry key (no selector)
OverAllKeys == cmd.name \in {"push", "pull"} /\ cmd.challenge = <<>>

\* the challenges the Registry keys name, key by key: the definition file of a
\* key that carries one, challenge.yml in the key's directory otherwise; a key
\* that does not load contributes nothing
RECURSIVE LoadedByPath(_)
LoadedByPath(keys) ==
    IF keys = <<>> THEN <<>>
    ELSE LoadFile(IF EndsWith(Head(keys), YML) \/ EndsWith(Head(keys), YAML)
                  THEN Head(keys) ELSE Join(Head(keys), ChallengeYml))
         \o LoadedByPath(Tail(keys))

\* C16: resolving every challenge never aborts the command: whatever relative
\* paths (with or without a definition-file suffix) the Registry's keys are, a
\* key that fails to load is skipped, every other key yields one challenge,
\* and the challenges come in Registry key order.
C16_ResolveAllNeverAborts ==
    OverAllKeys =>
        /\ pc # "raised"
        /\ pc = "loop" /\ idx = 0 => items = LoadedByPath(RegistryKeys)

\* a push over all keys ended in the uncaught ValueError of a key that carries
\* a definition-file suffix
C16_AbortedOnPathKey ==
    /\ OverAllKeys /\ cmd.name = "push" /\ pc = "raised"
    /\ \E i \in 1..Len(registry) : EndsWith(registry[i].key, YML)

\* the step that opens, runs one pass of, or closes a push or a pull
QuietInvoke == pc = "idle" /\ cmd'.name \in {"push", "pull"} /\ pc' # "idle"
QuietPass == pc = "loop" /\ cmd.name \in {"push", "pull"} /\ idx' = idx + 1
QuietReturn == pc = "loop" /\ cmd.name \in {"push", "pull"} /\ pc' = "done"

\* what one pass of the running command does to its item under the return
\* codes rc; nothing in it reads the quiet flag
QuietItem(rc) ==
    IF cmd.name = "push" THEN PushItem(items[idx + 1], cmd.no_auto_pull, rc)
    ELSE PullItem(items[idx + 1], cmd.strategy, rc)

C18_ListingFreshPerItem ==
    InstallPass \/ SyncPass =>
        (InListing(items[idx + 1]) <=> Counterparts(items[idx + 1]) # {})

\* an install over two definitions of one identity created both on the remote
\* and returned 0
C18_CreatedTwice ==
    /\ pc = "done" /\ cmd.name = "install" /\ Len(items) = 2
    /\ local[items[1]].id = local[items[2]].id
    /\ calls = <<LoadInstalledChallenges,
                 Call("create", DirStr(items[1]), cmd.ignore),
                 Call("create", DirStr(items[2]), cmd.ignore)>>
    /\ failed = <<>> /\ status = <<0>>
    /\ Cardinality(Counterparts(items[2])) = 2

\* the remote challenge r has a definition in the project: a Registry key whose
\* directory is in the working tree and whose challenge has r's name
DefinedLocally(r) ==
    \E n \in ChalIds :
        /\ \E j \in 1..Len(registry) : registry[j].key = DirStr(n)
        /\ DirStr(n) \in dirs
        /\ local[n].name = r.name

\* C19: mirror compares the remote listing with every local definition,
\* whatever the selector: a mirror given one challenge, with the create flag,
\* does not clone a remote challenge that has a local definition in the
\* Registry other than the selected one.
C19_MirrorComparesFullLocalListing ==
    [][pc = "idle" /\ cmd'.name = "mirror" /\ cmd'.challenge # <<>> =>
          \A i \in 1..Len(remote) :
              DefinedLocally(remote[i]) =>
                  \A c \in 1..Len(calls') :
                      ~(calls'[c].op = "clone" /\ calls'[c].on = <<remote[i].name>>)]_vars

\* a mirror of challenge 1 with the create flag cloned remote challenge 2, which
\* the Registry holds
C19_ClonedUnselected ==
    /\ cmd.name = "mirror" /\ cmd.challenge = DirStr(1) /\ cmd.create
    /\ pc \in {"loop", "done"} /\ items = <<1>>
    /\ \E j \in 1..Len(registry) : registry[j].key = DirStr(2)
    /\ CountOpOn("clone", ToString(2)) = 1

\* restore, under the subrepo backend, is about to take a git-sourced key that
\* it selects and that carries no definition-file suffix
RestoreByForcedPull ==
    /\ pc = "loop" /\ cmd.name = "restore" /\ idx < Len(items) /\ use_subrepo
    /\ RestoreSelects(idx + 1)
    /\ EndsWith(items[idx + 1].source, GIT) /\ ~EndsWith(items[idx + 1].key, YML)

\* C20: under the subrepo backend the restore of a git-sourced key K is one
\* pull of K with strategy force, with a selector and over all keys alike:
\* the pass makes the calls of that pull and no other, all of them on K, and
\* records K as failed exactly when that pull returns non-zero.
C20_RestoreIsForcedPullOfKey ==
    [][RestoreByForcedPull =>
          \E rcOf \in ForcePullRcs :
          \E force_pull \in {PullRun(items[idx + 1].key, "force", rcOf)} :
              /\ pc' = pc
              /\ NewCalls = force_pull.calls
              /\ \A c \in 1..Len(NewCalls) :
                    NewCalls[c].on = items[idx + 1].key /\ NewCalls[c].arg = {"--force"}
              /\ failed' = IF force_pull.status # 0
                           THEN Append(failed, items[idx + 1].key) ELSE failed]_vars

\* the first pass of a restore over all keys force-pulled both challenges of
\* the Registry and failed the first key for the pull of the second
C20_PulledEveryChallenge ==
    /\ cmd.name = "restore" /\ cmd.challenge = <<>> /\ use_subrepo /\ idx = 1
    /\ calls = <<Call("git subrepo pull", DirStr(1), {"--force"}),
                 Call("git subrepo pull", DirStr(2), {"--force"})>>
    /\ failed = <<DirStr(1)>>

\* restore is about to take a git-sourced key that it selects and that ends in
\* a definition-file suffix
RestoreSuffixedPass ==
    /\ pc = "loop" /\ cmd.name = "restore" /\ idx < Len(items)
    /\ RestoreSelects(idx + 1)
    /\ EndsWith(items[idx + 1].source, GIT)
    /\ (EndsWith(items[idx + 1].key, YML) \/ EndsWith(items[idx + 1].key, YAML))

\* C21: restore of a git-sourced key that ends in a definition-file suffix
\* (.yml or .yaml) is unsupported under either backend: the pass invokes no
\* git subprocess and records the key as failed, and restore returns 1.
C21_RestoreSuffixedUnsupported ==
    /\ [][RestoreSuffixedPass =>
            NewCalls = <<>> /\ failed' = Append(failed, items[idx + 1].key)]_vars
    /\ [](cmd.name = "restore" /\ pc = "done"
            /\ (\E k \in 1..Len(items) :
                   /\ RestoreSelects(k) /\ EndsWith(items[k].source, GIT)
                   /\ (EndsWith(items[k].key, YML) \/ EndsWith(items[k].key, YAML)))
            => status = <<1>>)

\* a restore of a key ending in .yaml, under the built-in backend, added a
\* subtree at the key and returned 0
C21_YamlKeyRestored ==
    /\ cmd.name = "restore" /\ pc = "done" /\ ~use_subrepo
    /\ cmd.challenge = Join(DirStr(1), CustomYaml)
    /\ \E c \in 1..Len(calls) :
          calls[c] = Call("git subtree add", Join(DirStr(1), CustomYaml), {"--squash"})
    /\ failed = <<>> /\ status = <<0>>

\* the push loop is about to take a challenge; the challenge in directory n has
\* a git source locator
PushPass == pc = "loop" /\ cmd.name = "push" /\ idx < Len(items)
GitSourced(n) == EndsWith(LookupRepo(DirStr(n)), GIT)

\* C22: push skips a git-sourced challenge whose working tree is clean (git
\* status returns 0 with empty output): after git status no git add, commit,
\* transport push or automatic pull is invoked for it and it is not recorded as
\* failed, so a push whose every challenge was clean returns 0.
C22_PushSkipsClean ==
    /\ [][PushPass /\ GitSourced(items[idx + 1]) /\ rcs'.status = 0 /\ rcs'.dirty = 0 =>
            /\ NewCalls = <<Call("git status", DirStr(items[idx + 1]), {"--porcelain"})>>
            /\ failed' = failed]_vars
    /\ [](cmd.name = "push" /\ pc = "done" /\ items # <<>> /\ Len(calls) = Len(items)
            /\ (\A c \in 1..Len(calls) : calls[c].op = "git status")
            => status = <<0>>)

\* a push over two clean git-sourced challenges asked git status twice, did
\* nothing else and returned 0
C22_Witness ==
    /\ cmd.name = "push" /\ pc = "done" /\ Len(items) = 2
    /\ calls = <<Call("git status", DirStr(items[1]), {"--porcelain"}),
                 Call("git status", DirStr(items[2]), {"--porcelain"})>>
    /\ failed = <<>> /\ status = <<0>>

\* the calls a push pass makes for the dirty challenge in directory n up to its
\* commit, and from there to its transport push
PushUpToCommit(n) ==
    <<Call("git status", DirStr(n), {"--porcelain"}),
      Call("git add", DirStr(n), {}),
      Call("git commit", DirStr(n), {})>>
PushAfterCommit(n) ==
    IF use_subrepo THEN <<Call("git subrepo push", DirStr(n), {})>>
    ELSE <<Call("get_git_repo_head_branch", LookupRepo(DirStr(n)), {}),
           Call("git subtree push", DirStr(n), {})>>

\* C23: for a git-sourced challenge that is not clean, push runs git status,
\* git add and git commit in that order; if git add or git commit returned
\* non-zero the challenge is recorded as failed and nothing more is run;
\* otherwise, and only then, the transport push follows, preceded under the
\* built-in backend by the resolution of the upstream's default branch, which
\* is thus made in every pass, after that pass's commit.
C23_PushOrdering ==
    [][PushPass /\ GitSourced(items[idx + 1]) /\ (rcs'.status # 0 \/ rcs'.dirty # 0) =>
          LET n == items[idx + 1]
          IN  IF rcs'.add # 0 \/ rcs'.commit # 0
              THEN NewCalls = PushUpToCommit(n) /\ failed' = Append(failed, n)
              ELSE /\ Len(NewCalls) >= 3 + Len(PushAfterCommit(n))
                   /\ SubSeq(NewCalls, 1, 3 + Len(PushAfterCommit(n)))
                         = PushUpToCommit(n) \o PushAfterCommit(n)
                   /\ CountOp(NewCalls, "git subtree push")
                         + CountOp(NewCalls, "git subrepo push") = 1
                   /\ CountOp(NewCalls, "get_git_repo_head_branch")
                         >= IF use_subrepo THEN 0 ELSE 1]_vars

\* a push under the built-in backend committed and pushed two challenges, the
\* default branch resolved once in each pass, between commit and push
C23_Witness ==
    /\ cmd.name = "push" /\ pc = "done" /\ ~use_subrepo /\ cmd.no_auto_pull
    /\ Len(items) = 2 /\ failed = <<>>
    /\ calls = PushUpToCommit(items[1]) \o PushAfterCommit(items[1])
               \o PushUpToCommit(items[2]) \o PushAfterCommit(items[2])

\* the pull loop is about to take a challenge
PullPass == pc = "loop" /\ cmd.name = "pull" /\ idx < Len(items)
ValidStrategies == {"fast-forward", "rebase", "merge", "force"}

\* C24: under the subrepo backend a pull whose strategy is none of
\* fast-forward, rebase, merge and force records every challenge it takes as
\* failed and returns 1, whatever the git command returns.
C24_InvalidStrategyFails ==
    /\ [][PullPass /\ use_subrepo /\ cmd.strategy \notin ValidStrategies =>
            failed' = Append(failed, items[idx + 1])]_vars
    /\ [](cmd.name = "pull" /\ pc = "done" /\ use_subrepo /\ items # <<>>
            /\ cmd.strategy \notin ValidStrategies => status = <<1>>)

\* a pull with an unknown strategy ran git subrepo pull without a strategy
\* flag, which succeeded, and returned 0
C24_PulledWithDefaultStrategy ==
    /\ cmd.name = "pull" /\ pc = "done" /\ use_subrepo
    /\ cmd.strategy \notin ValidStrategies
    /\ calls = <<Call("git subrepo pull", DirStr(1), {})>>
    /\ failed = <<>> /\ status = <<0>>

\* the three follow-up stages of a built-in pull of the challenge in directory n
PullFollowup(n) ==
    <<Call("git mergetool", DirStr(n), {}),
      Call("git commit --no-edit", DirStr(n), {}),
      Call("git clean", DirStr(n), {"-f"})>>
FollowupOps == {"git mergetool", "git commit --no-edit", "git clean"}

\* the pass of pull under way ran the follow-up stages last, or not at all
FollowupRan ==
    /\ Len(NewCalls) >= 3
    /\ SubSeq(NewCalls, Len(NewCalls) - 2, Len(NewCalls)) = PullFollowup(items[idx + 1])
FollowupSkipped == \A c \in 1..Len(NewCalls) : NewCalls[c].op \notin FollowupOps

\* the follow-up of C25 as stated: a non-zero result of any of the three
\* stages, the commit included, records the challenge as failed.
C25_AnyFollowupStageFails ==
    [][PullPass /\ ~use_subrepo /\ GitSourced(items[idx + 1]) /\ rcs'.pull = 0 =>
          failed' = IF rcs'.mergetool # 0 \/ rcs'.pull_commit # 0 \/ rcs'.clean # 0
                    THEN Append(failed, items[idx + 1]) ELSE failed]_vars

\* C25: under the built-in backend, after a successful subtree pull the three
\* follow-up stages (merge resolution, commit, cleanup) run in that order; a
\* non-zero result of merge resolution or of cleanup records the challenge as
\* failed and makes pull return 1, while the result of the commit is not
\* looked at; the loop goes on to the remaining challenges; the follow-up
\* stages do not run after a failed subtree pull nor under the subrepo backend.
C25_FollowupFailsOnMergeOrCleanup ==
    /\ [][PullPass =>
            /\ pc' = "loop" /\ idx' = idx + 1 /\ items' = items
            /\ IF ~use_subrepo /\ GitSourced(items[idx + 1]) /\ rcs'.pull = 0
               THEN /\ FollowupRan
                    /\ failed' = IF rcs'.mergetool # 0 \/ rcs'.clean # 0
                                 THEN Append(failed, items[idx + 1]) ELSE failed
               ELSE FollowupSkipped]_vars
    /\ [](cmd.name = "pull" /\ pc = "done" /\ failed # <<>> => status = <<1>>)

\* a built-in pull whose commit returned non-zero after a successful subtree
\* pull recorded no failure and returned 0
C25_Witness ==
    /\ cmd.name = "pull" /\ pc = "done" /\ ~use_subrepo /\ Len(items) = 1
    /\ rcs.pull = 0 /\ rcs.pull_commit # 0 /\ rcs.mergetool = 0 /\ rcs.clean = 0
    /\ Len(calls) = 5 /\ SubSeq(calls, 3, 5) = PullFollowup(items[1])
    /\ failed = <<>> /\ status = <<0>>

\* the mirror loop is about to take a challenge
MirrorPass == pc = "loop" /\ cmd.name = "mirror" /\ idx < Len(items)

\* C26: in mirror's loop, without skip_verify the entity's verify is invoked
\* first and its mirror is invoked exactly when verify returned false: a
\* challenge already in sync is not mirrored and not recorded as failed; with
\* skip_verify, verify is not invoked and mirror is invoked once for the
\* challenge.
C26_MirrorVerifyShortCircuit ==
    [][MirrorPass =>
          LET n == items[idx + 1]
              verify == Call("verify", DirStr(n), cmd.ignore)
              mirror == Call("mirror", DirStr(n), cmd.ignore)
          IN  IF cmd.skip_verify THEN NewCalls = <<mirror>>
              ELSE IF EntityVerify(n, cmd.ignore) = "false"
                   THEN NewCalls = <<verify, mirror>>
              ELSE /\ NewCalls = <<verify>>
                   /\ EntityVerify(n, cmd.ignore) = "true" => failed' = failed]_vars

\* a mirror over two challenges verified both and mirrored only the second, the
\* first being in sync, without a failure
C26_Witness ==
    /\ cmd.name = "mirror" /\ pc = "done" /\ ~cmd.skip_verify /\ ~cmd.create
    /\ Len(items) = 2
    /\ calls = <<LoadInstalledChallenges,
                 Call("verify", DirStr(items[1]), cmd.ignore),
                 Call("verify", DirStr(items[2]), cmd.ignore),
                 Call("mirror", DirStr(items[2]), cmd.ignore)>>
    /\ failed = <<>> /\ status = <<0>>

\* the commands that resolve their selector to one definition file
SelectorCommands == {"push", "pull", "install", "sync", "verify", "mirror", "deploy"}

\* the definition file a selector stands for
SelectorPath(challenge) ==
    IF EndsWith(challenge, YML) \/ EndsWith(challenge, YAML) THEN challenge
    ELSE IF challenge = <<".">> THEN Join(Cwd, ChallengeYml)
    ELSE Join(challenge, ChallengeYml)

VerifyPass == pc = "loop" /\ cmd.name = "verify" /\ idx < Len(items)

\* how many times challenge n occurs in the list s
Occurrences(s, n) == Cardinality({i \in 1..Len(s) : s[i] = n})

\* C28: verify's three lists partition the challenges it has taken: each is in
\* exactly one of in-sync, out-of-sync and failed-verification, and no other
\* challenge is in any; a challenge whose verify returned false goes to
\* out-of-sync, one whose verify returned true to in-sync, and one whose
\* verify raised, and only such a one, to failed-verification.
C28_VerifyPartition ==
    /\ [](cmd.name = "verify" /\ pc \in {"loop", "done"} =>
            /\ \A k \in 1..idx :
                  Occurrences(in_sync, items[k]) + Occurrences(out_of_sync, items[k])
                      + Occurrences(failed, items[k]) = 1
            /\ Len(in_sync) + Len(out_of_sync) + Len(failed) = idx
            /\ pc = "done" => idx = Len(items))
    /\ [][VerifyPass =>
            LET n == items[idx + 1]
                v == EntityVerify(n, cmd.ignore)
            IN  /\ out_of_sync' = IF v = "false" THEN Append(out_of_sync, n) ELSE out_of_sync
                /\ in_sync' = IF v = "true" THEN Append(in_sync, n) ELSE in_sync
                /\ failed' = IF v = "raise" THEN Append(failed, n) ELSE failed]_vars

\* a verify over two challenges filed one out of sync and one, with no remote
\* counterpart, as a failed verification
C28_Witness ==
    /\ VerifyReturned /\ Len(items) = 2
    /\ Len(out_of_sync) = 1 /\ Len(failed) = 1 /\ in_sync = <<>>
    /\ EntityVerify(failed[1], cmd.ignore) = "raise"
    /\ EntityVerify(out_of_sync[1], cmd.ignore) = "false"

\* the challenge (or key) item is a line of the report, under some heading or
\* under the given one
Listed(item) == \E e \in 1..Len(report) : report[e].item = item
ListedUnder(heading, item) ==
    \E e \in 1..Len(report) : report[e].heading = heading /\ report[e].item = item

\* C29: when a batch command that is not quiet returns, every item it recorded
\* in a failure accumulator is a line of its end-of-batch listing; in deploy a
\* challenge whose deployment failed is listed under the deployment heading
\* and a challenge whose install or sync failed under the install/sync heading.
C29_EveryFailedItemListed ==
    pc = "done" /\ cmd.name \in BatchCommands \cup {"deploy"} /\ ~cmd.quiet =>
        /\ \A j \in 1..Len(failed) :
              IF cmd.name = "deploy"
              THEN ListedUnder("Install / Sync failed for:", failed[j])
              ELSE Listed(failed[j])
        /\ \A j \in 1..Len(failed_deployments) :
              ListedUnder("Deployment failed for:", failed_deployments[j])

\* a deploy of one challenge whose sync or create failed after its deployment
\* returned 1 with no challenge in its listing
C29_FailedSyncUnlisted ==
    /\ cmd.name = "deploy" /\ pc = "done" /\ status = <<1>>
    /\ Len(failed) = 1 /\ failed_deployments = <<>>
    /\ report = <<>>

\* the listing l holds a challenge of the identity of the local challenge n
IdentityIn(n, l) == \E i \in 1..Len(l) : l[i].id = local[n].id

\* C30: install, sync and deploy decide by one criterion, the identity,
\* whether a challenge has a remote counterpart: each of them treats a
\* challenge as present (install does not create it, sync syncs it, deploy
\* syncs it and does not create it) exactly when the remote listing it fetched
\* holds a challenge of the same identity.
C30_OneIdentityCriterion ==
    [][/\ InstallPass =>
            (CountOp(NewCalls, "create") = 0 <=> IdentityIn(items[idx + 1], remote_challenges))
       /\ SyncPass =>
            (CountOp(NewCalls, "sync") = 1 <=> IdentityIn(items[idx + 1], remote_challenges))
       /\ DeployedPass =>
            /\ CountOp(NewCalls, "sync") = 1 <=> IdentityIn(items[idx + 1], remote)
            /\ CountOp(NewCalls, "create") = 0 <=> IdentityIn(items[idx + 1], remote)]_vars

\* a deploy created, a second time, a challenge whose identity the remote
\* already held under another name
C30_DeployCreatedPresent ==
    /\ cmd.name = "deploy" /\ pc = "done" /\ items = <<1>> /\ failed = <<>>
    /\ CountOp(calls, "create") = 1
    /\ Cardinality(Counterparts(1)) = 2

\* add of a repository URL ran its git subtree add / git subrepo clone command,
\* which returned non-zero
AddTransportFailed ==
    /\ pc = "idle" /\ cmd'.name = "add" /\ EndsWith(cmd'.repo, GIT)
    /\ rcs'.add_cmd # 0
    /\ CountOp(calls', "git subtree add") + CountOp(calls', "git subrepo clone") = 1

\* C31: when the git subtree add / git subrepo clone command of add returns
\* non-zero, add returns 1 and leaves the stores as they were: the Registry
\* file is not rewritten and the remote platform holds no new challenge.
C31_AddFailureLeavesStoresConsistent ==
    [][AddTransportFailed =>
          /\ pc' = "done" /\ status' = <<1>>
          /\ registry' = registry
          /\ remote' = remote]_vars

\* an add whose git command failed returned 1 with the Registry short of the
\* challenge that its create call had already installed on the remote platform
C31_CreatedBeforeTransport ==
    /\ cmd.name = "add" /\ EndsWith(cmd.repo, GIT) /\ pc = "done" /\ status = <<1>>
    /\ rcs.add_cmd # 0
    /\ calls[1] = Call("create", Stem(cmd.repo), {})
    /\ Len(remote) = 1 /\ remote[1].id = IntOf(Stem(cmd.repo))
    /\ registry = <<>>

\* deploy returned; the challenge in directory n was deployed, and then created
\* or synced, by the running command
DeployReturned == cmd.name = "deploy" /\ pc = "done"
DeployedAndInstalled(n) ==
    /\ CountOpOn("deploy", ToString(n)) = 1
    /\ CountOpOn("create", ToString(n)) + CountOpOn("sync", ToString(n)) = 1

\* C32: deploy returns 0 only if every selected challenge was deployed and then
\* created or synced without error: a selected challenge that was skipped (no
\* image, or a host without a URI scheme), whose deployment failed or whose
\* create or sync raised makes deploy return 1.
C32_DeployZeroOnlyIfAllDeployed ==
    DeployReturned /\ status = <<0>> =>
        /\ failed_deployments = <<>> /\ failed = <<>>
        /\ \A k \in 1..Len(Resolution(cmd.challenge).challenges) :
              DeployedAndInstalled(Resolution(cmd.challenge).challenges[k])

\* a deploy of one challenge whose host has no URI scheme made no call and
\* returned 0
C32_SkippedYetZero ==
    /\ DeployReturned /\ status = <<0>> /\ cmd.host = <<>>
    /\ Len(items) = 1 /\ idx = 1
    /\ local[items[1]].host # <<>> /\ ~HasNetloc(local[items[1]].host)
    /\ calls = <<>>

\* the git commands only a pull runs
PullOps == {"git subtree pull", "git subrepo pull", "git mergetool",
            "git commit --no-edit", "git clean"}

\* the pass of push under way committed and pushed its challenge
PushedPass ==
    /\ PushPass /\ GitSourced(items[idx + 1])
    /\ (rcs'.status # 0 \/ rcs'.dirty # 0)
    /\ rcs'.add = 0 /\ rcs'.commit = 0 /\ rcs'.push = 0

\* C33: push pulls a challenge automatically only after that challenge's
\* transport push returned zero and only when no_auto_pull is not set: a pass
\* over a clean, filesystem-sourced, unregistered or failed challenge, or with
\* no_auto_pull, runs no pull command.  The automatic pull is the pull of that
\* one challenge, made after the push, and whatever it returns the challenge
\* is not recorded as failed by push, whose status and listing it leaves alone.
C33_AutoPullAfterPush ==
    /\ [][PushPass =>
            LET n == items[idx + 1]
                pushed == PushUpToCommit(n) \o PushAfterCommit(n)
            IN  IF PushedPass /\ ~cmd.no_auto_pull
                THEN /\ NewCalls = pushed \o PullRun(DirStr(n), "fast-forward",
                                                     [m \in ChalIds |-> rcs']).calls
                     /\ \A c \in Len(pushed) + 1..Len(NewCalls) :
                           NewCalls[c].on \in {DirStr(n), LookupRepo(DirStr(n))}
                     /\ failed' = failed
                ELSE \A c \in 1..Len(NewCalls) : NewCalls[c].op \notin PullOps]_vars
    /\ [](cmd.name = "push" /\ pc = "done" =>
            /\ items # <<>> => status = (IF failed = <<>> THEN <<0>> ELSE <<1>>)
            /\ \A e \in 1..Len(report) : report[e].heading = "Push failed for:")

\* a push of one challenge whose automatic pull failed after a successful
\* transport push recorded no failure and returned 0
C33_Witness ==
    /\ cmd.name = "push" /\ pc = "done" /\ ~cmd.no_auto_pull /\ Len(items) = 1
    /\ rcs.push = 0 /\ rcs.pull # 0
    /\ CountOp(calls, "git subtree pull") + CountOp(calls, "git subrepo pull") = 1
    /\ failed = <<>> /\ status = <<0>>

====
